---------------------------- MODULE Spec2Model ----------------------------
(***************************************************************************)
(* A model of the resume field-extraction pipeline                         *)
(* (backend/app/services/resume_service.py, backend/app/routers/resume.py).*)
(*                                                                         *)
(* Texts are TLA+ strings; Python's str methods and the regular            *)
(* expressions of the source are operators on strings.  Only ASCII texts   *)
(* are drawn, so the non-ASCII alternatives of a character class (en dash, *)
(* bullet glyphs) never match and are left out of the classes.             *)
(***************************************************************************)
EXTENDS Integers, Sequences, FiniteSets, TLC

VARIABLES
    pc,               \* position of the operation under analysis
    text,             \* the input text of the operation
    lines,            \* sectionize: text.split('\n')
    i,                \* sectionize: loop index (1-based; 0 before the loop)
    current_section,  \* sectionize: the zone lines are appended to
    sections,         \* sectionize: zone name -> the text appended to it
    ret,              \* the value the operation returned
    hashseed,         \* the process's string hash seed (fixes set iteration order)
    now,              \* datetime.now() of the run: <<year, month, day>>
    shared,           \* the writes made to the class-level tables and to the
                      \* parser instance since the module was imported
    parsed,           \* parse_resume: the dictionary of extracted fields
    upload,           \* parse_resume: the uploaded file
    db,               \* the rows of the candidates table
    args,             \* the arguments of the roadmap operation under analysis
    first,            \* the response to an earlier request for the same text
    experiences,      \* extract_work_experience: the entries appended so far
    current_exp       \* extract_work_experience: the open entry, <<>> for None

vars == <<pc, text, lines, i, current_section, sections, ret, hashseed, now, shared,
          parsed, upload, db, args, first, experiences, current_exp>>

\* the environment of a run
envVars == <<hashseed, now, shared>>

\* an operation that reads neither the hash order nor the clock
EnvIdle ==
    /\ hashseed = 1
    /\ shared = {}
    /\ now = <<2026, 11, 5>>

\* the loop state of extract_work_experience, idle when it is called as a whole
workVars == <<experiences, current_exp>>
WorkIdle ==
    /\ experiences = <<>>
    /\ current_exp = <<>>

\* the state of a request to parse_resume, idle in the operations on their own
reqVars == <<parsed, upload, db, args, first, workVars>>
ReqIdle ==
    /\ parsed = "None"
    /\ upload = "None"
    /\ db = <<>>
    /\ args = "None"
    /\ first = <<>>
    /\ WorkIdle

\* the sectionizer's loop state, idle in the operations that call it as a whole
secVars == <<lines, i, current_section, sections>>

(***************************************************************************)
(* Python str primitives                                                   *)
(***************************************************************************)
NL == "\n"

UpperAlpha == "ABCDEFGHIJKLMNOPQRSTUVWXYZ"
LowerAlpha == "abcdefghijklmnopqrstuvwxyz"
DigitAlpha == "0123456789"

CharsOf(s) == {SubSeq(s, k, k) : k \in 1..Len(s)}

UpperSet == CharsOf(UpperAlpha)
LowerSet == CharsOf(LowerAlpha)
DigitSet == CharsOf(DigitAlpha)
LetterSet == UpperSet \cup LowerSet
\* str.split() / str.strip() whitespace
SpaceSet == {" ", NL, "\t", "\r"}

At(s, k) == SubSeq(s, k, k)
From(s, k) == SubSeq(s, k, Len(s))

LowerOf == [c \in UpperSet |->
              LET k == CHOOSE j \in 1..26 : At(UpperAlpha, j) = c
              IN  At(LowerAlpha, k)]
UpperOf == [c \in LowerSet |->
              LET k == CHOOSE j \in 1..26 : At(LowerAlpha, j) = c
              IN  At(UpperAlpha, k)]
DigitOf == [c \in DigitSet |-> (CHOOSE j \in 1..10 : At(DigitAlpha, j) = c) - 1]

LowerC(c) == IF c \in UpperSet THEN LowerOf[c] ELSE c
UpperC(c) == IF c \in LowerSet THEN UpperOf[c] ELSE c

\* (the string functions split their argument in halves: the result is that
\* of a left-to-right pass)
RECURSIVE lower(_)
lower(s) == IF Len(s) <= 1 THEN LowerC(s)
            ELSE lower(SubSeq(s, 1, Len(s) \div 2)) \o lower(From(s, Len(s) \div 2 + 1))

RECURSIVE upper(_)
upper(s) == IF Len(s) <= 1 THEN UpperC(s)
            ELSE upper(SubSeq(s, 1, Len(s) \div 2)) \o upper(From(s, Len(s) \div 2 + 1))

\* str.isupper(): at least one cased character and no lower-case one
isupper(s) == /\ \E k \in 1..Len(s) : At(s, k) \in UpperSet
              /\ \A k \in 1..Len(s) : At(s, k) \notin LowerSet

\* str.title(): a letter is upper-cased after a non-letter, lower-cased after a letter
RECURSIVE TitleFrom(_, _)
TitleFrom(s, prevLetter) ==
    IF s = "" THEN ""
    ELSE IF Len(s) = 1
    THEN (IF s \in LetterSet THEN (IF prevLetter THEN LowerC(s) ELSE UpperC(s)) ELSE s)
    ELSE LET h == Len(s) \div 2
         IN  TitleFrom(SubSeq(s, 1, h), prevLetter)
             \o TitleFrom(From(s, h + 1), At(s, h) \in LetterSet)
title(s) == TitleFrom(s, FALSE)

\* x in s (substring containment), s.find(x) (1-based; 0 when absent)
StartsAt(s, x, k) == k + Len(x) - 1 <= Len(s) /\ SubSeq(s, k, k + Len(x) - 1) = x
Contains(s, x) == \E k \in 1..(Len(s) - Len(x) + 1) : StartsAt(s, x, k)
find(s, x) ==
    IF Contains(s, x)
    THEN CHOOSE k \in 1..(Len(s) - Len(x) + 1) :
             /\ StartsAt(s, x, k)
             /\ \A j \in 1..(k - 1) : ~StartsAt(s, x, j)
    ELSE 0
startswith(s, x) == StartsAt(s, x, 1)
endswith(s, x) == Len(x) <= Len(s) /\ StartsAt(s, x, Len(s) - Len(x) + 1)

\* s.lstrip(chars) / s.rstrip(chars) / s.strip()
lstripSet(s, cs) ==
    LET keep == {k \in 1..Len(s) : At(s, k) \notin cs}
    IN  IF keep = {} THEN "" ELSE From(s, CHOOSE k \in keep : \A j \in keep : k <= j)
rstripSet(s, cs) ==
    LET keep == {k \in 1..Len(s) : At(s, k) \notin cs}
    IN  IF keep = {} THEN "" ELSE SubSeq(s, 1, CHOOSE k \in keep : \A j \in keep : j <= k)
strip(s) == rstripSet(lstripSet(s, SpaceSet), SpaceSet)

\* s.split(sep) for a one-character separator: always at least one piece
RECURSIVE splitOn(_, _)
splitOn(s, sep) ==
    LET k == find(s, sep)
    IN  IF k = 0 THEN <<s>>
        ELSE <<SubSeq(s, 1, k - 1)>> \o splitOn(From(s, k + 1), sep)

\* s.split(): runs of whitespace separate the words, no empty word
RECURSIVE splitWs(_)
splitWs(s) ==
    LET t == lstripSet(s, SpaceSet)
    IN  IF t = "" THEN <<>>
        ELSE LET ends == {k \in 1..Len(t) : At(t, k) \in SpaceSet}
                 e == IF ends = {} THEN Len(t) + 1
                      ELSE CHOOSE k \in ends : \A j \in ends : k <= j
             IN  <<SubSeq(t, 1, e - 1)>> \o splitWs(From(t, e))

\* sep.join(seq)
RECURSIVE join(_, _)
join(sep, seq) ==
    IF seq = <<>> THEN ""
    ELSE IF Len(seq) = 1 THEN seq[1]
    ELSE seq[1] \o sep \o join(sep, Tail(seq))

\* any(kw in s for kw in kws)
ContainsAny(s, kws) == \E kw \in kws : Contains(s, kw)

Range(f) == {f[k] : k \in DOMAIN f}

Min(a, b) == IF a <= b THEN a ELSE b
Max(a, b) == IF a >= b THEN a ELSE b

\* re.sub(r'\D', '', s): the digits of s
RECURSIVE DigitsOnly(_)
DigitsOnly(s) ==
    IF Len(s) <= 1 THEN (IF s \in DigitSet THEN s ELSE "")
    ELSE DigitsOnly(SubSeq(s, 1, Len(s) \div 2)) \o DigitsOnly(From(s, Len(s) \div 2 + 1))

\* \d{n} at position k
DigitsRun(s, k, n) == k + n - 1 <= Len(s) /\ \A j \in k..(k + n - 1) : At(s, j) \in DigitSet

\* re.findall for a pattern without groups: ml[k] is the length of the match of
\* the pattern at position k (-1: none); matches are taken left to right and do
\* not overlap.
RECURSIVE FindAllFrom(_, _, _)
FindAllFrom(s, ml, k) ==
    LET hits == {j \in k..Len(s) : ml[j] >= 0}
    IN  IF hits = {} THEN <<>>
        ELSE LET j == CHOOSE x \in hits : \A y \in hits : x <= y
             IN  <<SubSeq(s, j, j + ml[j] - 1)>> \o FindAllFrom(s, ml, j + Max(ml[j], 1))

(***************************************************************************)
(* Rule 1: the sectionizer                                                 *)
(***************************************************************************)
\* The dict in insertion order, which is the order .items() iterates in.
SECTION_KEYWORDS == <<
    <<"education", {"education", "academic", "qualification", "academics", "scholastic"}>>,
    <<"experience", {"experience", "employment", "work history", "career",
                     "professional background"}>>,
    <<"skills", {"skills", "technical skills", "technologies", "tools", "competencies",
                 "expertise"}>>,
    <<"projects", {"projects", "academic projects", "personal projects", "key projects"}>>,
    <<"contact", {"contact", "personal info", "personal details", "reach me"}>>,
    <<"summary", {"summary", "objective", "about me", "profile", "career objective"}>>,
    <<"certifications", {"certifications", "certificates", "courses", "training"}>>,
    <<"achievements", {"achievements", "awards", "honors", "accomplishments"}>> >>

None == "None"

\* The inner loop without the break: the last zone, in table order, one of
\* whose keywords occurs in the line.
DetectSectionLast(line_lower) ==
    LET hits == {k \in 1..Len(SECTION_KEYWORDS) :
                     ContainsAny(line_lower, SECTION_KEYWORDS[k][2])}
    IN  IF hits = {} THEN None
        ELSE SECTION_KEYWORDS[CHOOSE k \in hits : \A j \in hits : j <= k][1]

\* The inner for/break of sectionize: the first zone, in table order, one of
\* whose keywords occurs in the lower-cased line; None when there is none.
DetectSection(line_lower) ==
    LET hits == {k \in 1..Len(SECTION_KEYWORDS) :
                     ContainsAny(line_lower, SECTION_KEYWORDS[k][2])}
    IN  IF hits = {} THEN None
        ELSE SECTION_KEYWORDS[CHOOSE k \in hits : \A j \in hits : k <= j][1]

\* len(words) < 5 and line.strip()
IsHeaderCandidate(line) ==
    Len(splitWs(strip(lower(line)))) < 5 /\ strip(line) # ""

\* One iteration of the loop on `line`, from the state st = [cur, secs].
SectionizeKeepsHeaderStep(st, line) ==
    LET line_lower == strip(lower(line))
        detected == IF IsHeaderCandidate(line) THEN DetectSection(line_lower) ELSE None
        cur == IF detected # None THEN detected ELSE st.cur
        old == IF cur \in DOMAIN st.secs THEN st.secs[cur] ELSE ""
    IN  [cur |-> cur,
         secs |-> [z \in DOMAIN st.secs \cup {cur} |->
                     IF z = cur THEN old \o line \o NL ELSE st.secs[z]]]

SectionizeStep(st, line) ==
    LET line_lower == strip(lower(line))
        detected == IF IsHeaderCandidate(line) THEN DetectSection(line_lower) ELSE None
    IN  IF detected # None
        THEN \* the header line switches the zone and is not added
             [cur |-> detected,
              secs |-> [z \in DOMAIN st.secs \cup {detected} |->
                          IF z \in DOMAIN st.secs THEN st.secs[z] ELSE ""]]
        ELSE [cur |-> st.cur,
              secs |-> [z \in DOMAIN st.secs \cup {st.cur} |->
                          IF z = st.cur
                          THEN (IF z \in DOMAIN st.secs THEN st.secs[z] ELSE "")
                               \o line \o NL
                          ELSE st.secs[z]]]

SectionizeStart == [cur |-> "header", secs |-> [z \in {"header", "unknown"} |-> ""]]

RECURSIVE SectionizeFold(_, _)
SectionizeFold(st, ls) ==
    IF ls = <<>> THEN st ELSE SectionizeFold(SectionizeStep(st, Head(ls)), Tail(ls))

\* sectionize(text): the dict of zones
sectionize(t) == SectionizeFold(SectionizeStart, splitOn(t, NL)).secs

\* sections.get(zone, default)
SectionGet(secs, zone, default) == IF zone \in DOMAIN secs THEN secs[zone] ELSE default

(***************************************************************************)
(* sectionize, one loop iteration per step                                 *)
(***************************************************************************)
MaxSecLines == 3

SecLineSet == {"", "Education", "Work Experience", "John Smith",
               "Technical Skills and Projects",
               "My education and work experience in short"}

RECURSIVE SeqsUpTo(_, _)
SeqsUpTo(S, n) ==
    IF n = 0 THEN {<<>>}
    ELSE LET shorter == SeqsUpTo(S, n - 1)
         IN  shorter \cup {Append(q, x) : q \in {r \in shorter : Len(r) = n - 1}, x \in S}

SecTexts == {join(NL, ls) : ls \in SeqsUpTo(SecLineSet, MaxSecLines)}

SecInit ==
    /\ text \in SecTexts
    /\ pc = "call"
    /\ lines = <<>>
    /\ i = 0
    /\ current_section = None
    /\ sections = <<>>
    /\ ret = None
    /\ EnvIdle
    /\ ReqIdle

\* lines = text.split('\n'); sections = {'header': '', 'unknown': ''}
SecEnter ==
    /\ pc = "call"
    /\ lines' = splitOn(text, NL)
    /\ current_section' = SectionizeStart.cur
    /\ sections' = SectionizeStart.secs
    /\ i' = 0
    /\ pc' = "loop"
    /\ UNCHANGED <<text, ret, envVars, reqVars>>

\* one iteration of `for i, line in enumerate(lines)`
SecLine ==
    /\ pc = "loop"
    /\ i < Len(lines)
    /\ LET st == SectionizeStep([cur |-> current_section, secs |-> sections], lines[i + 1])
       IN  /\ current_section' = st.cur
           /\ sections' = st.secs
    /\ i' = i + 1
    /\ UNCHANGED <<pc, text, lines, ret, envVars, reqVars>>

\* return sections
SecReturn ==
    /\ pc = "loop"
    /\ i = Len(lines)
    /\ ret' = sections
    /\ pc' = "done"
    /\ UNCHANGED <<text, lines, i, current_section, sections, envVars, reqVars>>

SecNext == SecEnter \/ SecLine \/ SecReturn

SpecSectionize == SecInit /\ [][SecNext]_vars

\* ---- C1 ----
\* The lines a zone's text holds: its pieces at '\n', without the empty piece
\* after the last newline.
ZoneLines(z) == LET ps == splitOn(z, NL) IN SubSeq(ps, 1, Len(ps) - 1)

IsHeaderLine(line) == IsHeaderCandidate(line) /\ DetectSection(strip(lower(line))) # None

\* The zone in force at input line j: that of the last header at or before j.
ZoneAt(ls, j) ==
    LET hs == {k \in 1..j : IsHeaderLine(ls[k])}
    IN  IF hs = {} THEN "header"
        ELSE DetectSection(strip(lower(ls[CHOOSE k \in hs : \A m \in hs : m <= k])))

RECURSIVE PickLines(_, _, _)
PickLines(ls, j, z) ==
    IF j > Len(ls) THEN <<>>
    ELSE (IF ~IsHeaderLine(ls[j]) /\ ZoneAt(ls, j) = z THEN <<ls[j]>> ELSE <<>>)
         \o PickLines(ls, j + 1, z)

RECURSIVE SumLens(_, _)
SumLens(f, D) ==
    IF D = {} THEN 0
    ELSE LET z == CHOOSE y \in D : TRUE IN Len(f[z]) + SumLens(f, D \ {z})

AllZones == {"header", "unknown"} \cup {SECTION_KEYWORDS[k][1] : k \in 1..Len(SECTION_KEYWORDS)}

\* C1: after sectionize(text), every zone holds exactly the non-header input
\* lines read while it was the current zone, in input order (so no line is
\* lost or duplicated), and the zones together hold as many lines as the input
\* has, less the detected headers.
C1_SectionizePartition ==
    pc = "done" =>
        LET zl == [z \in DOMAIN ret |-> ZoneLines(ret[z])]
            headers == {k \in 1..Len(lines) : IsHeaderLine(lines[k])}
        IN  /\ \A z \in AllZones :
                  PickLines(lines, 1, z) =
                      (IF z \in DOMAIN ret THEN zl[z] ELSE <<>>)
            /\ DOMAIN ret \subseteq AllZones
            /\ SumLens(zl, DOMAIN ret) = Len(lines) - Cardinality(headers)

\* A text with a header, content before and after it, has been sectionized.
C1_Witness ==
    /\ pc = "done"
    /\ \E k \in 1..Len(lines) : IsHeaderLine(lines[k])
    /\ \E z \in DOMAIN ret \ {"header", "unknown"} : ret[z] # ""
    /\ ret["header"] # ""

(***************************************************************************)
(* Operations on a whole text: pc goes "call" -> "done", ret is the result *)
(***************************************************************************)
SecIdle ==
    /\ lines = <<>>
    /\ i = 0
    /\ current_section = None
    /\ sections = <<>>

ExtractedField(v, c) == [value |-> v, confidence |-> c]

(***************************************************************************)
(* Rule 2: phone                                                           *)
(***************************************************************************)
\* [\s\-]
PhoneSepSet == {" ", NL, "\t", "\r", "-"}
SixToNine == {"6", "7", "8", "9"}

\* r'\+91[\s\-]?[6-9]\d{9}' at position k
PhonePlus91Len(s, k) ==
    IF StartsAt(s, "+91", k)
    THEN LET p == k + 3
             q == IF p <= Len(s) /\ At(s, p) \in PhoneSepSet THEN p + 1 ELSE p
         IN  IF q <= Len(s) /\ At(s, q) \in SixToNine /\ DigitsRun(s, q + 1, 9)
             THEN q + 10 - k ELSE -1
    ELSE -1

\* r'[6-9]\d{9}' at position k
PhoneMobileLen(s, k) ==
    IF At(s, k) \in SixToNine /\ DigitsRun(s, k + 1, 9) THEN 10 ELSE -1

\* r'\d{5}[\s\-]?\d{5}' at position k
PhoneFiveFiveLen(s, k) ==
    IF DigitsRun(s, k, 5)
    THEN LET p == k + 5
             q == IF p <= Len(s) /\ At(s, p) \in PhoneSepSet THEN p + 1 ELSE p
         IN  IF DigitsRun(s, q, 5) THEN q + 5 - k ELSE -1
    ELSE -1

\* all_matches: the matches of the three simple patterns, pattern by pattern.
\* (PHONE_REGEX.findall(text) is computed into `matches` and never read.)
PhoneAllMatches(t) ==
    FindAllFrom(t, [k \in 1..Len(t) |-> PhonePlus91Len(t, k)], 1)
    \o FindAllFrom(t, [k \in 1..Len(t) |-> PhoneMobileLen(t, k)], 1)
    \o FindAllFrom(t, [k \in 1..Len(t) |-> PhoneFiveFiveLen(t, k)], 1)

\* the body of `for match in all_matches` for one match with a valid length
PhoneFormat(match) ==
    LET digits_only == DigitsOnly(match)
    IN  IF Len(digits_only) = 10
        THEN ExtractedField("+91-" \o digits_only, 95)
        ELSE IF startswith(digits_only, "91") /\ Len(digits_only) = 12
        THEN ExtractedField("+" \o SubSeq(digits_only, 1, 2) \o "-" \o From(digits_only, 3), 95)
        ELSE ExtractedField(match, 80)

extract_phone(t) ==
    LET all_matches == PhoneAllMatches(t)
        ok == {k \in 1..Len(all_matches) :
                   LET n == Len(DigitsOnly(all_matches[k])) IN 10 <= n /\ n <= 15}
    IN  IF ok = {} THEN ExtractedField("", 0)
        ELSE PhoneFormat(all_matches[CHOOSE k \in ok : \A j \in ok : k <= j])

PhoneNumbers == {"", "12345", "9876543210", "98765 43210", "98765-43210",
                 "+91 9876543210", "+91-9876543210", "+919876543210",
                 "+91 5876543210", "919876543210", "4155552671",
                 "+1 415 555 2671", "+14155552671", "+44 20 7946 0958",
                 "1234567890123456"}
PhonePrefixes == {"", "Contact: ", "Ph\n"}
PhoneSuffixes == {"", " (home)", "\nPune"}

PhoneTexts == {a \o n \o b : a \in PhonePrefixes, n \in PhoneNumbers, b \in PhoneSuffixes}

PhoneInit ==
    /\ text \in PhoneTexts
    /\ pc = "call"
    /\ ret = None
    /\ SecIdle
    /\ ReqIdle
    /\ EnvIdle

PhoneCall ==
    /\ pc = "call"
    /\ ret' = extract_phone(text)
    /\ pc' = "done"
    /\ UNCHANGED <<text, secVars, envVars, reqVars>>

SpecPhone == PhoneInit /\ [][PhoneCall]_vars

\* ---- C5 ----
\* C5 as claimed: every text whose one phone number has 10 to 15 digits gets a
\* result: '+91-' and the digits with confidence 95 for 10 digits, confidence
\* 95 for 12 digits starting with 91, and confidence 80 for any other count
\* (an 11-digit international number).  The texts drawn hold one number each.
C5_PhoneByDigitCount ==
    pc = "done" =>
        LET d == DigitsOnly(text)
        IN  (10 <= Len(d) /\ Len(d) <= 15) =>
                IF Len(d) = 10 THEN ret = ExtractedField("+91-" \o d, 95)
                ELSE IF Len(d) = 12 /\ startswith(d, "91") THEN ret.confidence = 95
                ELSE ret.confidence = 80

(***************************************************************************)
(* Rule 3: name                                                            *)
(***************************************************************************)
NAME_STOPWORDS == {"resume", "cv", "curriculum vitae", "mobile", "email", "address",
                   "page", "contact", "phone", "tel", "linkedin", "github", "portfolio",
                   "http", "www", "@", "objective", "summary"}

TopLines == 20

\* The filters of the loop body on one line; TRUE when the line is returned.
NamePasses(line) ==
    LET clean_line == strip(line)
        words == splitWs(clean_line)
    IN  /\ clean_line # ""
        /\ ~ContainsAny(lower(clean_line), NAME_STOPWORDS)
        /\ 2 <= Len(words) /\ Len(words) <= 4
        /\ \A k \in 1..Len(clean_line) : At(clean_line, k) \notin DigitSet
        /\ CharsOf(clean_line) \subseteq LetterSet \cup {" ", "."}
        /\ \/ \A k \in 1..Len(words) : At(words[k], 1) \in UpperSet
           \/ isupper(clean_line)

RECURSIVE NameScan(_)
NameScan(ls) ==
    IF ls = <<>> THEN ExtractedField("Unknown", 0)
    ELSE IF NamePasses(Head(ls)) THEN ExtractedField(title(strip(Head(ls))), 85)
    ELSE NameScan(Tail(ls))

NameWindowOffByOne(ls) == SubSeq(ls, 1, Min(TopLines + 1, Len(ls)))

\* lines[:20]
NameWindow(ls) == SubSeq(ls, 1, Min(TopLines, Len(ls)))

extract_name(t) == NameScan(NameWindow(splitOn(strip(t), NL)))

MaxLead == 2

NameLineSet == {"JOHN SMITH", "  Mary Jane  ", "john smith", "John", "Resume of John",
                "John A. Smith", "John Smith 2", "Dr John Adam Smith Jr", "John O'Neil", ""}

RECURSIVE Repeat(_, _)
Repeat(s, n) == IF n = 0 THEN "" ELSE s \o Repeat(s, n - 1)

\* k blank lines, a first line, n filler lines that pass no filter, a last line
NameTexts ==
    {Repeat(NL, k) \o a \o NL \o Repeat("x1" \o NL, n) \o b :
        k \in 0..MaxLead, a \in NameLineSet, b \in NameLineSet,
        n \in {0, TopLines - 3, TopLines - 2, TopLines - 1, TopLines}}

NameInit ==
    /\ text \in NameTexts
    /\ pc = "call"
    /\ ret = None
    /\ SecIdle
    /\ ReqIdle
    /\ EnvIdle

NameCall ==
    /\ pc = "call"
    /\ ret' = extract_name(text)
    /\ pc' = "done"
    /\ UNCHANGED <<text, secVars, envVars, reqVars>>

SpecName == NameInit /\ [][NameCall]_vars

\* ---- C6 ----
\* The result the claim describes, for the lines ls: the first of the first 20
\* that passes the filters, title-cased, with confidence 85; else Unknown, 0.
NameOfFirstPassing(ls) ==
    LET top == {k \in 1..Len(ls) : k <= TopLines /\ NamePasses(ls[k])}
    IN  IF top = {} THEN ExtractedField("Unknown", 0)
        ELSE ExtractedField(title(strip(ls[CHOOSE k \in top : \A j \in top : k <= j])), 85)

\* C6 as claimed: the name is the first passing line among the first 20 lines
\* of the document; a line at position 21 or later is never returned.
C6_NameInFirst20DocumentLines ==
    pc = "done" => ret = NameOfFirstPassing(splitOn(text, NL))

\* C6, amended: the name is the first passing line among the first 20 lines of
\* the text with its leading and trailing whitespace (blank lines included)
\* stripped, title-cased with confidence 85; a later line of the stripped text
\* is never returned, and without a passing line the result is Unknown, 0.
C6_NameInFirst20StrippedLines ==
    pc = "done" => ret = NameOfFirstPassing(splitOn(strip(text), NL))

\* A passing line stands at position 21 of the stripped text, none before it,
\* and the result is Unknown.
C6_Witness ==
    /\ pc = "done"
    /\ LET ls == splitOn(strip(text), NL)
       IN  /\ Len(ls) > TopLines
           /\ NamePasses(ls[TopLines + 1])
           /\ \A k \in 1..TopLines : ~NamePasses(ls[k])
    /\ ret = ExtractedField("Unknown", 0)

(***************************************************************************)
(* Iteration over a Python set of strings                                  *)
(*                                                                         *)
(* The lookup tables that are sets are written as tuples in source order.  *)
(* The order a set is iterated in is fixed by the process's string hash    *)
(* seed: h = 1 iterates a table in the order written, h = 2 in the reverse *)
(* order.                                                                  *)
(***************************************************************************)
HashSeeds == {1, 2}

Reverse(q) == [k \in 1..Len(q) |-> q[Len(q) + 1 - k]]

SetOrder(table, h) == IF h = 1 THEN table ELSE Reverse(table)

\* the least and the greatest element of a nonempty set of positions
FirstIndex(S) == CHOOSE k \in S : \A j \in S : k <= j
LastIndex(S) == CHOOSE k \in S : \A j \in S : j <= k

(***************************************************************************)
(* Rule 4: education                                                       *)
(***************************************************************************)
DEGREE_KEYWORDS == <<
    "b.tech", "btech", "b tech", "m.tech", "mtech", "m tech",
    "b.e", "be", "b e", "m.e", "me", "m e",
    "b.sc", "bsc", "b sc", "m.sc", "msc", "m sc",
    "bca", "mca", "bba", "mba", "b.com", "bcom", "m.com", "mcom",
    "phd", "ph.d", "doctorate", "bachelor", "master", "diploma",
    "hsc", "ssc", "cbse", "icse", "10th", "12th", "intermediate",
    "b.a", "ba", "m.a", "ma", "b.ed", "bed", "m.ed", "med" >>

INSTITUTE_KEYWORDS == <<
    "university", "institute", "college", "school", "academy",
    "iit", "nit", "iiit", "bits", "vit", "srm", "manipal",
    "engineering", "technology", "polytechnic", "vidyalaya" >>

Proximity == 3

\* float(s) for s matching \d+\.?\d*, written as Python prints it
RECURSIVE StripLeadingZeros(_)
StripLeadingZeros(s) ==
    IF Len(s) > 1 /\ At(s, 1) = "0" THEN StripLeadingZeros(From(s, 2)) ELSE s
FloatOf(s) ==
    LET dot == find(s, ".")
        ip == StripLeadingZeros(IF dot = 0 THEN s ELSE SubSeq(s, 1, dot - 1))
        fp == IF dot = 0 THEN "" ELSE rstripSet(From(s, dot + 1), {"0"})
    IN  ip \o "." \o (IF fp = "" THEN "0" ELSE fp)

\* the length of the run of characters of class cs at position k
RECURSIVE RunLen(_, _, _)
RunLen(s, k, cs) ==
    IF k <= Len(s) /\ At(s, k) \in cs THEN 1 + RunLen(s, k + 1, cs) ELSE 0

\* re.search: the first position where the pattern matches, 0 when none;
\* ml[k] is the length of the match at k (-1: none)
SearchPos(s, ml) ==
    LET hits == {k \in 1..Len(s) : ml[k] >= 0}
    IN  IF hits = {} THEN 0 ELSE FirstIndex(hits)

StartsAtCI(s, x, k) == k + Len(x) - 1 <= Len(s) /\ lower(SubSeq(s, k, k + Len(x) - 1)) = lower(x)

\* CGPA_REGEX at k: <<start of group 1, end of group 1>>, or <<>>
CgpaAt(s, k) ==
    LET w == IF StartsAtCI(s, "CGPA", k) THEN 4
             ELSE IF StartsAtCI(s, "GPA", k) THEN 3
             ELSE IF StartsAtCI(s, "Grade", k) THEN 5 ELSE 0
        p == k + w + RunLen(s, k + w, SpaceSet \cup {":"})
        d1 == RunLen(s, p, DigitSet)
        dot == IF p + d1 <= Len(s) /\ At(s, p + d1) = "." THEN 1 ELSE 0
        d2 == RunLen(s, p + d1 + dot, DigitSet)
    IN  IF w > 0 /\ d1 > 0 THEN <<p, p + d1 + dot + d2 - 1>> ELSE <<>>

\* PERCENTAGE_REGEX at k: <<start of group 1, end of group 1>>, or <<>>
PercentAt(s, k) ==
    LET run == RunLen(s, k, DigitSet)
        d1 == Min(run, 3)
        p == k + d1
        frac == IF p <= Len(s) /\ At(s, p) = "." /\ RunLen(s, p + 1, DigitSet) > 0
                THEN 1 + RunLen(s, p + 1, DigitSet) ELSE 0
        q == p + frac + RunLen(s, p + frac, SpaceSet)
    IN  IF run >= 2 /\ q <= Len(s) /\ At(s, q) = "%" THEN <<k, p + frac - 1>> ELSE <<>>

\* r'20\d{2}(?:\s*[-]\s*20\d{2})?' at k: the length of the match, or -1
YearAt(s, k) ==
    IF StartsAt(s, "20", k) /\ DigitsRun(s, k + 2, 2)
    THEN LET p == k + 4 + RunLen(s, k + 4, SpaceSet)
             q == p + 1 + RunLen(s, p + 1, SpaceSet)
         IN  IF p <= Len(s) /\ At(s, p) = "-" /\ StartsAt(s, "20", q) /\ DigitsRun(s, q + 2, 2)
             THEN q + 4 - k ELSE 4
    ELSE -1

\* cgpa of a cluster: CGPA_REGEX first, then PERCENTAGE_REGEX, else None
ClusterCgpa(cluster_text) ==
    LET c == SearchPos(cluster_text, [k \in 1..Len(cluster_text) |->
                 IF CgpaAt(cluster_text, k) = <<>> THEN -1 ELSE 1])
        pp == SearchPos(cluster_text, [k \in 1..Len(cluster_text) |->
                 IF PercentAt(cluster_text, k) = <<>> THEN -1 ELSE 1])
    IN  IF c > 0
        THEN LET g == CgpaAt(cluster_text, c) IN FloatOf(SubSeq(cluster_text, g[1], g[2]))
        ELSE IF pp > 0
        THEN LET g == PercentAt(cluster_text, pp) IN FloatOf(SubSeq(cluster_text, g[1], g[2]))
        ELSE None

ClusterYear(cluster_text) ==
    LET y == SearchPos(cluster_text, [k \in 1..Len(cluster_text) |-> YearAt(cluster_text, k)])
    IN  IF y > 0 THEN SubSeq(cluster_text, y, y + YearAt(cluster_text, y) - 1) ELSE None

\* _extract_degree_type: the first keyword, longest first, that the line
\* contains; sorted() is stable, so keywords of one length stay in the set's
\* iteration order.
extract_degree_type(line, h) ==
    LET line_lower == lower(line)
        order == SetOrder(DEGREE_KEYWORDS, h)
        hits == {k \in 1..Len(order) : Contains(line_lower, order[k])}
        longest == {k \in hits : \A j \in hits : Len(order[j]) <= Len(order[k])}
    IN  IF hits = {} THEN "Unknown"
        ELSE LET deg == order[FirstIndex(longest)]
                 up == upper(deg)
                 RECURSIVE NoDots(_)
                 NoDots(x) == IF x = "" THEN ""
                              ELSE (IF At(x, 1) = "." THEN "" ELSE At(x, 1)) \o NoDots(From(x, 2))
             IN  NoDots(up)

\* ([A-Za-z\s]+?)(?:\s*,|\s*\(|$) from position p: the shortest group after
\* which the terminator matches; 0 when there is none, else the group's length
FieldGroupLen(s, p) ==
    LET run == RunLen(s, p, LetterSet \cup SpaceSet)
        TermAt(q) == LET r == q + RunLen(s, q, SpaceSet)
                     IN  \/ q = Len(s) + 1
                         \/ r <= Len(s) /\ At(s, r) \in {",", "("}
        ok == {g \in 1..run : TermAt(p + g)}
    IN  IF ok = {} THEN 0 ELSE FirstIndex(ok)

\* prefix then \s+ (least = 1) or \s* (least = 0), greedy with backtracking,
\* then the group: <<start of group, length of group>> or <<>>
FieldAfter(s, p, least) ==
    LET ws == RunLen(s, p, SpaceSet)
        ok == {w \in least..ws : FieldGroupLen(s, p + w) > 0}
    IN  IF ok = {} THEN <<>>
        ELSE LET w == LastIndex(ok) IN <<p + w, FieldGroupLen(s, p + w)>>

KnownFields == <<"Computer Science", "Electronics", "Mechanical", "Civil", "Chemical",
                 "IT", "Information Technology">>

\* _extract_field
extract_field(line) ==
    LET inAt == [k \in 1..Len(line) |->
                    IF StartsAtCI(line, "in", k) THEN FieldAfter(line, k + 2, 1) ELSE <<>>]
        dashAt == [k \in 1..Len(line) |->
                    IF At(line, k) = "-" THEN FieldAfter(line, k + 1, 0) ELSE <<>>]
        knownAt == [k \in 1..Len(line) |->
                    LET alts == {a \in 1..Len(KnownFields) : StartsAtCI(line, KnownFields[a], k)}
                    IN  IF alts = {} THEN -1 ELSE Len(KnownFields[FirstIndex(alts)])]
        p1 == {k \in 1..Len(line) : inAt[k] # <<>>}
        p2 == {k \in 1..Len(line) : dashAt[k] # <<>>}
        p3 == SearchPos(line, knownAt)
    IN  IF p1 # {}
        THEN LET g == inAt[FirstIndex(p1)] IN strip(SubSeq(line, g[1], g[1] + g[2] - 1))
        ELSE IF p2 # {}
        THEN LET g == dashAt[FirstIndex(p2)] IN strip(SubSeq(line, g[1], g[1] + g[2] - 1))
        ELSE IF p3 > 0 THEN strip(SubSeq(line, p3, p3 + knownAt[p3] - 1))
        ELSE "Not specified"

\* 0-based indices of the lines that contain a keyword of the table
KeywordLines(ls, table) ==
    {k \in 0..(Len(ls) - 1) : ContainsAny(lower(ls[k + 1]), Range(table))}

Abs(x) == IF x < 0 THEN -x ELSE x

\* The inner loop over institute_lines for the degree at deg_idx: the index of
\* best_institute, -1 when there is none.
BestInstituteNoUsed(deg_idx, institutes, used) ==
    LET near == {x \in institutes : Abs(deg_idx - x) <= Proximity}
        best == {x \in near : \A y \in near : Abs(deg_idx - x) <= Abs(deg_idx - y)}
    IN  IF near = {} THEN -1 ELSE FirstIndex(best)

BestInstituteWithinTwo(deg_idx, institutes, used) ==
    LET near == {x \in institutes \ used : Abs(deg_idx - x) < Proximity}
        best == {x \in near : \A y \in near : Abs(deg_idx - x) <= Abs(deg_idx - y)}
    IN  IF near = {} THEN -1 ELSE FirstIndex(best)

BestInstitute(deg_idx, institutes, used) ==
    LET near == {x \in institutes \ used : Abs(deg_idx - x) <= Proximity}
        best == {x \in near : \A y \in near : Abs(deg_idx - x) <= Abs(deg_idx - y)}
    IN  IF near = {} THEN -1 ELSE FirstIndex(best)

\* The clustering loop: for the degree lines in order, the index of the
\* institute each is paired with (-1: none).
RECURSIVE EduPairing(_, _, _)
EduPairing(degrees, institutes, used) ==
    IF degrees = {} THEN <<>>
    ELSE LET deg_idx == FirstIndex(degrees)
             b == BestInstitute(deg_idx, institutes, used)
         IN  <<b>> \o EduPairing(degrees \ {deg_idx}, institutes,
                                 IF b >= 0 THEN used \cup {b} ELSE used)

\* the n-th smallest element of a set of numbers
RECURSIVE Nth(_, _)
Nth(S, n) == IF n = 1 THEN FirstIndex(S) ELSE Nth(S \ {FirstIndex(S)}, n - 1)

\* lines[a:b] of a 0-based slice
Slice(ls, a, b) == SubSeq(ls, a + 1, Min(b, Len(ls)))

EduEntry(ls, deg_idx, inst_idx, h) ==
    LET degree_line == strip(ls[deg_idx + 1])
    IN  IF inst_idx >= 0
        THEN LET cluster_start == Min(deg_idx, inst_idx)
                 cluster_end == Max(deg_idx, inst_idx) + 1
                 cluster_text == join(NL, Slice(ls, cluster_start, cluster_end + 1))
             IN  [degree |-> extract_degree_type(degree_line, h),
                  field |-> extract_field(degree_line),
                  institute |-> strip(ls[inst_idx + 1]),
                  year |-> ClusterYear(cluster_text),
                  cgpa |-> ClusterCgpa(cluster_text),
                  confidence |-> 85]
        ELSE [degree |-> extract_degree_type(degree_line, h),
              field |-> extract_field(degree_line),
              institute |-> "",
              year |-> None,
              cgpa |-> None,
              confidence |-> 60]

\* the lines extract_education scans
EduLines(t) == splitOn(SectionGet(sectionize(t), "education", t), NL)

extract_education(t, h) ==
    LET ls == EduLines(t)
        degree_lines == KeywordLines(ls, DEGREE_KEYWORDS)
        institute_lines == KeywordLines(ls, INSTITUTE_KEYWORDS)
        pairing == EduPairing(degree_lines, institute_lines, {})
    IN  [k \in 1..Len(pairing) |-> EduEntry(ls, Nth(degree_lines, k), pairing[k], h)]

MaxEduLines == 4
MaxEduIdx == 12

EduLineSet == {"B.Tech in CS", "IIT Delhi", "x", "MBA, XLRI College 2020"}

\* a degree line at 0-based index dpos, an institute line at ipos, n lines
EduPadded(dpos, ipos, n) ==
    join(NL, [k \in 1..n |-> IF k = dpos + 1 THEN "B.Tech in CS"
                              ELSE IF k = ipos + 1 THEN "IIT Delhi" ELSE "x"])

EduTexts ==
    {a \o join(NL, ls) : a \in {"", "Education\n"},
                         ls \in SeqsUpTo(EduLineSet, MaxEduLines) \ {<<>>}}
    \cup {EduPadded(5, ipos, MaxEduIdx + 1) : ipos \in (0..MaxEduIdx) \ {5}}

EduInit ==
    /\ text \in EduTexts
    /\ hashseed \in HashSeeds
    /\ shared = {}
    /\ now = <<2026, 11, 5>>
    /\ pc = "call"
    /\ ret = None
    /\ SecIdle
    /\ ReqIdle

EduCall ==
    /\ pc = "call"
    /\ ret' = extract_education(text, hashseed)
    /\ pc' = "done"
    /\ UNCHANGED <<text, secVars, envVars, reqVars>>

SpecEducation == EduInit /\ [][EduCall]_vars

\* ---- C7 ----
\* C7: extract_education returns one entry per degree line, in line order.
\* The k-th entry is paired with an institute line that no earlier degree
\* consumed, at most 3 lines from the degree line and nearest to it, and then
\* has confidence 85; when no such institute line exists it has an empty
\* institute and confidence 60.  A degree at index 5 is paired with the only
\* institute at index 7 and is degree-only with the only institute at index 12.
C7_EducationPairing ==
    pc = "done" =>
        LET ls == EduLines(text)
            D == KeywordLines(ls, DEGREE_KEYWORDS)
            I == KeywordLines(ls, INSTITUTE_KEYWORDS)
            pr == EduPairing(D, I, {})
        IN  /\ Len(ret) = Cardinality(D)
            /\ Len(pr) = Cardinality(D)
            /\ \A k \in 1..Len(ret) :
                  LET d == Nth(D, k)
                      consumed == {pr[j] : j \in 1..(k - 1)}
                      avail == {x \in I \ consumed : Abs(d - x) <= 3}
                  IN  /\ ret[k].degree = extract_degree_type(strip(ls[d + 1]), hashseed)
                      /\ IF avail = {}
                         THEN /\ pr[k] = -1
                              /\ ret[k].institute = ""
                              /\ ret[k].confidence = 60
                         ELSE /\ pr[k] \in avail
                              /\ \A y \in avail : Abs(d - pr[k]) <= Abs(d - y)
                              /\ ret[k].institute = strip(ls[pr[k] + 1])
                              /\ ret[k].confidence = 85
            /\ (D = {5} /\ I = {7}) => ret[1].confidence = 85
            /\ (D = {5} /\ I = {12}) => (ret[1].confidence = 60 /\ ret[1].institute = "")

\* The degree at index 5 has been paired with the only institute, at index 7.
C7_Witness ==
    /\ pc = "done"
    /\ text = EduPadded(5, 7, MaxEduIdx + 1)
    /\ Len(ret) = 1
    /\ ret[1].confidence = 85
    /\ ret[1].institute = "IIT Delhi"

(***************************************************************************)
(* Rule 5: years of experience (date math)                                 *)
(***************************************************************************)
MonthAbbr == <<"jan", "feb", "mar", "apr", "may", "jun",
               "jul", "aug", "sep", "oct", "nov", "dec">>

\* the names dateutil's parserinfo knows a month by
MonthNames == <<{"jan", "january"}, {"feb", "february"}, {"mar", "march"},
                {"apr", "april"}, {"may"}, {"jun", "june"}, {"jul", "july"},
                {"aug", "august"}, {"sep", "sept", "september"},
                {"oct", "october"}, {"nov", "november"}, {"dec", "december"}>>

\* (?:Jan|...|Dec)[a-z]*[\s,]*\d{4} at k (IGNORECASE): its length or -1
MonthYearLen(s, k) ==
    IF \E m \in 1..12 : StartsAtCI(s, MonthAbbr[m], k)
    THEN LET p == k + 3 + RunLen(s, k + 3, LetterSet)
             q == p + RunLen(s, p, SpaceSet \cup {","})
         IN  IF DigitsRun(s, q, 4) THEN q + 4 - k ELSE -1
    ELSE -1

\* \d{1,2}/\d{4} at k: its length or -1
NumMonthYearLen(s, k) ==
    IF DigitsRun(s, k, 2) /\ StartsAt(s, "/", k + 2) /\ DigitsRun(s, k + 3, 4) THEN 7
    ELSE IF DigitsRun(s, k, 1) /\ StartsAt(s, "/", k + 1) /\ DigitsRun(s, k + 2, 4) THEN 6
    ELSE -1

\* group 1 of DATE_RANGE_REGEX at k: the first alternative that matches
DateStartLen(s, k) ==
    LET FirstOf(named, numeric) ==
            IF named >= 0 THEN named
            ELSE IF numeric >= 0 THEN numeric
            ELSE IF DigitsRun(s, k, 4) THEN 4
            ELSE -1
    IN  FirstOf(MonthYearLen(s, k), NumMonthYearLen(s, k))

PresentWords == <<"Present", "Current", "Till Date", "Ongoing">>

\* group 2 of DATE_RANGE_REGEX at k
DateEndLen(s, k) ==
    LET Word(ws) == IF ws = {} THEN -1 ELSE Len(PresentWords[FirstIndex(ws)])
        FirstOf(date) ==
            IF date >= 0 THEN date
            ELSE Word({w \in 1..Len(PresentWords) : StartsAtCI(s, PresentWords[w], k)})
    IN  FirstOf(DateStartLen(s, k))

\* [-to] under IGNORECASE (the en and em dash are not ASCII)
RangeSepSet == {"-", "t", "o", "T", "O"}

\* DATE_RANGE_REGEX at k: <<start_str, end_str, length>> or <<>>.  [-to]+ is
\* greedy and gives characters back until group 2 matches.
DateRangeAt(s, k) ==
    LET Match(a, q, b) == <<SubSeq(s, k, k + a - 1), SubSeq(s, q, q + b - 1), q + b - k>>
        \* ends[n]: <<position, length>> of group 2 after n separator characters
        Longest(a, ends, ok) ==
            IF ok = {} THEN <<>>
            ELSE Match(a, ends[LastIndex(ok)][1], ends[LastIndex(ok)][2])
        Ends(a, ends) == Longest(a, ends, {n \in DOMAIN ends : ends[n][2] >= 0})
        EndAt(q) == <<q, DateEndLen(s, q)>>
        Sep(a, p, r) == Ends(a, [n \in 1..r |-> EndAt(p + n + RunLen(s, p + n, SpaceSet))])
        AfterStart(a, p) == Sep(a, p, RunLen(s, p, RangeSepSet))
        Start(a) == IF a < 0 THEN <<>> ELSE AfterStart(a, k + a + RunLen(s, k + a, SpaceSet))
    IN  Start(DateStartLen(s, k))

\* the match of DATE_RANGE_REGEX at every position of s
DateRangeMatches(s) == [j \in 1..Len(s) |-> DateRangeAt(s, j)]

\* the non-overlapping matches from position k on, left to right
RECURSIVE DateRangesFrom(_, _)
DateRangesFrom(ms, k) ==
    LET Take(j) == <<<<ms[j][1], ms[j][2]>>>> \o DateRangesFrom(ms, j + ms[j][3])
        FromHits(hits) == IF hits = {} THEN <<>> ELSE Take(FirstIndex(hits))
    IN  FromHits({j \in DOMAIN ms : j >= k /\ ms[j] # <<>>})

\* DATE_RANGE_REGEX.findall(exp_text): the (start_str, end_str) pairs
DateRanges(s) == DateRangesFrom(DateRangeMatches(s), 1)

\* int(s) for a string of digits
RECURSIVE IntOf(_)
IntOf(s) == IF s = "" THEN 0 ELSE 10 * IntOf(SubSeq(s, 1, Len(s) - 1)) + DigitOf[At(s, Len(s))]

IsLeap(y) == (y % 4 = 0 /\ y % 100 # 0) \/ y % 400 = 0
DaysIn(y, m) == IF m = 2 THEN (IF IsLeap(y) THEN 29 ELSE 28)
                ELSE IF m \in {4, 6, 9, 11} THEN 30 ELSE 31

\* A datetime is <<year, month, day, t>>: t = 0 at midnight, 1 later in the day.
Invalid == <<>>

\* dateutil: fields the string does not give come from today at midnight, the
\* day clamped to the month's length; a month outside 1..12 or a year outside
\* 1..9999 is an error.
BuildNaive(y, m, today) ==
    LET cy == IF y = 0 THEN today[1] ELSE y
        cm == IF m = 0 THEN today[2] ELSE m
    IN  <<cy, cm, Min(today[3], DaysIn(cy, cm)), 0>>

\* _parse_date(date_str) for a string DATE_RANGE_REGEX captured: the datetime,
\* or Invalid when it returns None or raises.
\*   month-name form: dateutil takes the month when the whole word is a month
\*     name and skips the word otherwise (fuzzy); the year is the 4 digits.
\*   MM/YYYY: dateutil reads month and year; for a month outside 1..12 it
\*     raises, and so does the fallback datetime(year, month, 1).
\*   YYYY: the year; for year 0 dateutil and the fallback both raise.
parse_date(date_str, today) ==
    LET MonthOf(ms) == IF ms = {} THEN 0 ELSE FirstIndex(ms)
        Named(word, y) ==
            IF y = 0 THEN Invalid
            ELSE BuildNaive(y, MonthOf({m \in 1..12 : word \in MonthNames[m]}), today)
        Numeric(mm, y) ==
            IF mm < 1 \/ mm > 12 \/ y = 0 THEN Invalid ELSE BuildNaive(y, mm, today)
        Year(y) == IF y = 0 THEN Invalid ELSE BuildNaive(y, 0, today)
        Form(ml, slash) ==
            IF ml >= 0
            THEN Named(lower(SubSeq(date_str, 1, RunLen(date_str, 1, LetterSet))),
                       IntOf(SubSeq(date_str, ml - 3, ml)))
            ELSE IF slash > 0
            THEN Numeric(IntOf(SubSeq(date_str, 1, slash - 1)),
                         IntOf(From(date_str, slash + 1)))
            ELSE Year(IntOf(date_str))
    IN  Form(MonthYearLen(date_str, 1), find(date_str, "/"))

\* dt + relativedelta(months = n), n >= 0 or n < 0: the day is clamped
AddMonths(dt, n) ==
    LET z == dt[1] * 12 + (dt[2] - 1) + n
        y == z \div 12
        m == (z % 12) + 1
    IN  <<y, m, Min(dt[3], DaysIn(y, m)), dt[4]>>

DateLess(a, b) ==
    \/ a[1] < b[1]
    \/ a[1] = b[1] /\ a[2] < b[2]
    \/ a[1] = b[1] /\ a[2] = b[2] /\ a[3] < b[3]
    \/ a[1] = b[1] /\ a[2] = b[2] /\ a[3] = b[3] /\ a[4] < b[4]

\* relativedelta(dt1, dt2): years * 12 + months of the difference
RECURSIVE RelAdjust(_, _, _)
RelAdjust(dt1, dt2, months) ==
    LET dtm == AddMonths(dt2, months)
    IN  IF DateLess(dt1, dt2)
        THEN (IF DateLess(dtm, dt1) THEN RelAdjust(dt1, dt2, months + 1) ELSE months)
        ELSE (IF DateLess(dt1, dtm) THEN RelAdjust(dt1, dt2, months - 1) ELSE months)
relativedelta_months(dt1, dt2) ==
    RelAdjust(dt1, dt2, (dt1[1] - dt2[1]) * 12 + (dt1[2] - dt2[2]))

\* One iteration of `for start_str, end_str in date_matches`: the months added
\* to total_months.
\* end_date of a range: now for Present, Current, Till Date, Ongoing
EndDate(end_str, today) ==
    IF lower(end_str) \in {"present", "current", "till date", "ongoing"}
    THEN <<today[1], today[2], today[3], 1>>
    ELSE parse_date(end_str, today)

RangeMonthsSigned(start_str, end_str, today) ==
    LET Months(start_date, end_date) ==
            IF start_date # Invalid /\ end_date # Invalid
            THEN relativedelta_months(end_date, start_date)
            ELSE 0
    IN  Months(parse_date(start_str, today), EndDate(end_str, today))

RangeMonths(start_str, end_str, today) ==
    LET Positive(months) == IF months > 0 THEN months ELSE 0
        Months(start_date, end_date) ==
            IF start_date # Invalid /\ end_date # Invalid
            THEN Positive(relativedelta_months(end_date, start_date))
            ELSE 0
    IN  Months(parse_date(start_str, today), EndDate(end_str, today))

\* the loop without its try: the first range that fails to parse ends the
\* summing, the ranges after it are never reached
RECURSIVE TotalMonthsUntilError(_, _)
TotalMonthsUntilError(date_matches, today) ==
    IF date_matches = <<>> THEN 0
    ELSE IF parse_date(date_matches[1][1], today) = Invalid
            \/ EndDate(date_matches[1][2], today) = Invalid
    THEN 0
    ELSE RangeMonths(date_matches[1][1], date_matches[1][2], today)
         + TotalMonthsUntilError(Tail(date_matches), today)

RECURSIVE TotalMonths(_, _)
TotalMonths(date_matches, today) ==
    IF date_matches = <<>> THEN 0
    ELSE RangeMonths(date_matches[1][1], date_matches[1][2], today)
         + TotalMonths(Tail(date_matches), today)

\* round(total_months / 12, 1), in tenths of a year: Python rounds the float
\* to the nearest tenth, and the exact ties (a quarter, three quarters) to the
\* even tenth.
TenthsOfRemainder == <<0, 1, 2, 2, 3, 4, 5, 6, 7, 8, 8, 9>>
RoundYearsTenths(total_months) ==
    10 * (total_months \div 12) + TenthsOfRemainder[(total_months % 12) + 1]

\* (?:years?|yrs?) at k: the lengths it can match with
YearsWordLens(s, k) ==
    (IF StartsAt(s, "year", k) THEN {4} ELSE {})
    \cup (IF StartsAt(s, "years", k) THEN {5} ELSE {})
    \cup (IF StartsAt(s, "yr", k) THEN {2} ELSE {})
    \cup (IF StartsAt(s, "yrs", k) THEN {3} ELSE {})

\* (\d+)\+?\s*(?:years?|yrs?) at k: the positions after it (empty: no match)
NumYearsEnds(s, k) ==
    LET d == RunLen(s, k, DigitSet)
        p == k + d + (IF StartsAt(s, "+", k + d) THEN 1 ELSE 0)
        q == p + RunLen(s, p, SpaceSet)
    IN  IF d = 0 THEN {} ELSE {q + w : w \in YearsWordLens(s, q)}

\* r'(\d+)\+?\s*(?:years?|yrs?)(?:\s+of)?\s*experience' at k
ExplicitOneAt(s, k) ==
    \E e \in NumYearsEnds(s, k) :
        LET ws == RunLen(s, e, SpaceSet)
        IN  \/ StartsAt(s, "experience", e + ws)
            \/ ws > 0 /\ StartsAt(s, "of", e + ws)
               /\ StartsAt(s, "experience", e + ws + 2 + RunLen(s, e + ws + 2, SpaceSet))

\* r'experience[:\s]+(\d+)\+?\s*(?:years?|yrs?)' at k: the start of group 1, or 0
ExplicitTwoAt(s, k) ==
    LET r == RunLen(s, k + 10, SpaceSet \cup {":"})
    IN  IF StartsAt(s, "experience", k) /\ r > 0 /\ NumYearsEnds(s, k + 10 + r) # {}
        THEN k + 10 + r ELSE 0

\* r'(\d+)\+?\s*(?:years?|yrs?)\s+in\s+(?:software|development|tech|IT)' at k,
\* searched in text.lower(), where the alternative IT cannot occur
ExplicitThreeAt(s, k) ==
    \E e \in NumYearsEnds(s, k) :
        LET ws == RunLen(s, e, SpaceSet)
            p == e + ws + 2
            ws2 == RunLen(s, p, SpaceSet)
        IN  /\ ws > 0 /\ StartsAt(s, "in", e + ws) /\ ws2 > 0
            /\ \E w \in {"software", "development", "tech", "IT"} : StartsAt(s, w, p + ws2)

\* the fallback without its patterns: no explicit statement is ever found
ExplicitYearsNone(lowered) == -1

\* The fallback loop over explicit_patterns: float(match.group(1)) of the
\* first pattern that matches, as an integer; -1 when none matches.
ExplicitYears(lowered) ==
    LET Num(k) == IntOf(SubSeq(lowered, k, k + RunLen(lowered, k, DigitSet) - 1))
        \* the positions pattern n matches at, and the start of its group 1
        Group(n, k) == IF n = 2 THEN ExplicitTwoAt(lowered, k) ELSE k
        First(n, hits) == IF hits = {} THEN -1 ELSE Num(Group(n, FirstIndex(hits)))
        Try(one, two, three) ==
            IF one >= 0 THEN one ELSE IF two >= 0 THEN two ELSE three
    IN  Try(First(1, {k \in 1..Len(lowered) : ExplicitOneAt(lowered, k)}),
            First(2, {k \in 1..Len(lowered) : ExplicitTwoAt(lowered, k) > 0}),
            First(3, {k \in 1..Len(lowered) : ExplicitThreeAt(lowered, k)}))

\* the text whose date ranges extract_experience_years sums
ExpText(t) == SectionGet(sectionize(t), "experience", t)

\* extract_experience_years; the value is in tenths of a year
extract_experience_years(t, today) ==
    LET Explicit(explicit) ==
            IF explicit >= 0 THEN ExtractedField(10 * explicit, 75)
            ELSE ExtractedField(0, 0)
        Summed(total_months) ==
            IF total_months > 0 THEN ExtractedField(RoundYearsTenths(total_months), 90)
            ELSE Explicit(ExplicitYears(lower(t)))
    IN  Summed(TotalMonths(DateRanges(ExpText(t)), today))

MaxYearLines == 2

YearLineSet == {"Jan 2020 - Dec 2021", "Jan 2022 - Present", "Dec 2021 - Jan 2020",
                "2019 to 2020", "03/2021 - 13/2021", "Mar 2020 - 2021",
                "5 years of experience", "Experience", "Skills"}

YearTexts == {join(NL, ls) : ls \in SeqsUpTo(YearLineSet, MaxYearLines) \ {<<>>}}

\* the days the parse runs on
Todays == {<<2026, 11, 5>>, <<2026, 1, 31>>, <<2024, 2, 29>>}

YearsInit ==
    /\ text \in YearTexts
    /\ now \in Todays
    /\ hashseed = 1
    /\ shared = {}
    /\ pc = "call"
    /\ ret = None
    /\ SecIdle
    /\ ReqIdle

YearsCall ==
    /\ pc = "call"
    /\ ret' = extract_experience_years(text, now)
    /\ pc' = "done"
    /\ UNCHANGED <<text, secVars, envVars, reqVars>>

SpecYears == YearsInit /\ [][YearsCall]_vars

\* ---- C8 ----
MaxSpanMonths == 1200

\* The whole months from start to end_: the k with start + k months <= end_ <
\* start + (k + 1) months when end_ is not before start, and the negated
\* whole months from end_ to start otherwise.
WholeMonths(start, end_) ==
    IF DateLess(end_, start)
    THEN 0 - (CHOOSE k \in 0..MaxSpanMonths :
                 /\ ~DateLess(end_, AddMonths(start, 0 - k))
                 /\ DateLess(end_, AddMonths(start, 1 - k)))
    ELSE CHOOSE k \in 0..MaxSpanMonths :
             /\ ~DateLess(end_, AddMonths(start, k))
             /\ DateLess(end_, AddMonths(start, k + 1))

\* The matched ranges of the experience text whose two sides parse, as
\* <<start, end>> datetimes; Present, Current, Till Date, Ongoing are now.
ParsedRanges(t, today) ==
    LET Both(ds) == [k \in {j \in DOMAIN ds : ds[j][1] # Invalid /\ ds[j][2] # Invalid} |-> ds[k]]
        Dates(ms) == Both([k \in 1..Len(ms) |->
                              <<parse_date(ms[k][1], today), EndDate(ms[k][2], today)>>])
    IN  Dates(DateRanges(ExpText(t)))

RECURSIVE SumOver(_, _)
SumOver(f, S) == IF S = {} THEN 0
                 ELSE LET k == CHOOSE x \in S : TRUE IN f[k] + SumOver(f, S \ {k})

\* v tenths of a year is months / 12 rounded to one decimal
IsRoundedYears(v, months) == Abs(12 * v - 10 * months) <= 6

\* C8 as stated: when the sum over ALL matched ranges of the whole-month
\* difference between end and start is positive, extract_experience_years
\* returns that sum divided by 12, rounded to one decimal, with confidence 90.
C8_SumOverAllRanges ==
    pc = "done" =>
        LET rs == ParsedRanges(text, now)
            total == SumOver([k \in DOMAIN rs |-> WholeMonths(rs[k][1], rs[k][2])], DOMAIN rs)
        IN  total > 0 => (ret.confidence = 90 /\ IsRoundedYears(ret.value, total))

\* C8 (amended): when the matched ranges whose two sides parse and whose
\* whole-month difference is positive have a positive total, the value of
\* extract_experience_years is the sum of those positive differences (a range
\* that ends before it starts is left out, not subtracted), divided by 12 and
\* rounded to one decimal, with confidence 90.  'Jan 2020 - Dec 2021' plus
\* 'Jan 2022 - Present' on 2026-11-05 give 23 + 58 months within 0.1 year.
C8_SumOverPositiveRanges ==
    pc = "done" =>
        LET rs == ParsedRanges(text, now)
            pos == {k \in DOMAIN rs : WholeMonths(rs[k][1], rs[k][2]) > 0}
            total == SumOver([k \in pos |-> WholeMonths(rs[k][1], rs[k][2])], pos)
        IN  /\ total > 0 => (ret.confidence = 90 /\ IsRoundedYears(ret.value, total))
            /\ total = 0 => ret.confidence # 90
            /\ (text = "Jan 2020 - Dec 2021\nJan 2022 - Present" /\ now = <<2026, 11, 5>>)
                   => (ret.confidence = 90 /\ Abs(12 * ret.value - 10 * (23 + 58)) <= 12)

\* The two ranges of the example have been summed on 2026-11-05: 81 months,
\* 6.8 years.
C8_Witness ==
    /\ pc = "done"
    /\ text = "Jan 2020 - Dec 2021\nJan 2022 - Present"
    /\ now = <<2026, 11, 5>>
    /\ ret = ExtractedField(68, 90)

(***************************************************************************)
(* Python float arithmetic (IEEE 754 binary64, round to nearest even)      *)
(*                                                                         *)
(* A natural number is a sequence of limbs, least significant first, with  *)
(* no leading zero limb.  A float is m * 2^e with m = 0 or m of exactly 53 *)
(* bits.  Only non-negative floats occur.                                  *)
(***************************************************************************)
LimbBits == 14
MantBits == 53

RECURSIVE Pow2(_)
Pow2(n) == IF n = 0 THEN 1 ELSE 2 * Pow2(n - 1)

Base == Pow2(LimbBits)

RECURSIVE BigNorm(_)
BigNorm(x) == IF x # <<>> /\ x[Len(x)] = 0 THEN BigNorm(SubSeq(x, 1, Len(x) - 1)) ELSE x

RECURSIVE BigOfInt(_)
BigOfInt(n) == IF n = 0 THEN <<>> ELSE <<n % Base>> \o BigOfInt(n \div Base)

RECURSIVE BigToInt(_)
BigToInt(x) == IF x = <<>> THEN 0 ELSE Head(x) + Base * BigToInt(Tail(x))

RECURSIVE BigAddC(_, _, _)
BigAddC(x, y, c) ==
    IF x = <<>> /\ y = <<>> THEN (IF c = 0 THEN <<>> ELSE <<c>>)
    ELSE LET a == IF x = <<>> THEN 0 ELSE Head(x)
             b == IF y = <<>> THEN 0 ELSE Head(y)
             sum == a + b + c
         IN  <<sum % Base>> \o BigAddC(IF x = <<>> THEN <<>> ELSE Tail(x),
                                       IF y = <<>> THEN <<>> ELSE Tail(y), sum \div Base)
BigAdd(x, y) == BigAddC(x, y, 0)

RECURSIVE BigMulSmallC(_, _, _)
BigMulSmallC(x, n, c) ==
    IF x = <<>> THEN (IF c = 0 THEN <<>> ELSE <<c>>)
    ELSE LET p == Head(x) * n + c
         IN  <<p % Base>> \o BigMulSmallC(Tail(x), n, p \div Base)
BigMulSmall(x, n) == BigNorm(BigMulSmallC(x, n, 0))

RECURSIVE BigMul(_, _)
BigMul(x, y) ==
    IF x = <<>> \/ y = <<>> THEN <<>>
    ELSE LET rest == BigMul(x, Tail(y))
         IN  BigAdd(BigMulSmall(x, Head(y)), IF rest = <<>> THEN <<>> ELSE <<0>> \o rest)

\* <<quotient limbs (not normalised), remainder>> of x by a small d
RECURSIVE BigQuotRem(_, _)
BigQuotRem(x, d) ==
    IF x = <<>> THEN <<<<>>, 0>>
    ELSE LET hi == BigQuotRem(Tail(x), d)
             cur == hi[2] * Base + Head(x)
         IN  <<<<cur \div d>> \o hi[1], cur % d>>

RECURSIVE BitLenSmall(_)
BitLenSmall(n) == IF n = 0 THEN 0 ELSE 1 + BitLenSmall(n \div 2)

BigBitLen(x) == IF x = <<>> THEN 0 ELSE LimbBits * (Len(x) - 1) + BitLenSmall(x[Len(x)])

BigShl(x, sh) ==
    IF x = <<>> THEN <<>>
    ELSE [k \in 1..(sh \div LimbBits) |-> 0] \o BigMulSmall(x, Pow2(sh % LimbBits))

BigShr(x, sh) ==
    LET a == sh \div LimbBits
    IN  IF a >= Len(x) THEN <<>>
        ELSE BigNorm(BigQuotRem(SubSeq(x, a + 1, Len(x)), Pow2(sh % LimbBits))[1])

\* bit k of x, bit 0 the least significant
BigBit(x, k) ==
    LET limb == (k \div LimbBits) + 1
    IN  IF limb > Len(x) THEN 0 ELSE (x[limb] \div Pow2(k % LimbBits)) % 2

FZero == [m |-> <<>>, e |-> 0]

\* the float nearest to X * 2^e, ties to the even mantissa
FRound(X, e) ==
    IF X = <<>> THEN FZero
    ELSE LET L == BigBitLen(X)
         IN  IF L <= MantBits
             THEN [m |-> BigShl(X, MantBits - L), e |-> e - (MantBits - L)]
             ELSE LET sh == L - MantBits
                      q == BigShr(X, sh)
                      half == BigBit(X, sh - 1) = 1
                      sticky == \E k \in 0..(sh - 2) : BigBit(X, k) = 1
                      up == half /\ (sticky \/ BigBit(q, 0) = 1)
                      q1 == IF up THEN BigAdd(q, <<1>>) ELSE q
                  IN  IF BigBitLen(q1) > MantBits
                      THEN [m |-> BigShr(q1, 1), e |-> e + sh + 1]
                      ELSE [m |-> q1, e |-> e + sh]

\* float(n)
FOfInt(n) == FRound(BigOfInt(n), 0)

\* a + b
FAdd(a, b) ==
    IF a.m = <<>> THEN b
    ELSE IF b.m = <<>> THEN a
    ELSE LET lo == Min(a.e, b.e)
         IN  FRound(BigAdd(BigShl(a.m, a.e - lo), BigShl(b.m, b.e - lo)), lo)

\* a * b
FMul(a, b) == FRound(BigMul(a.m, b.m), a.e + b.e)

\* p / q for integers 0 <= p, 0 < q < Base: the quotient is computed to
\* GuardBits binary places and a sticky bit, then rounded once.  A decimal
\* literal d.dd is FDivInt(ddd, 100).
GuardBits == 70
FDivInt(p, q) ==
    LET qr == BigQuotRem(BigShl(BigOfInt(p), GuardBits), q)
        X == BigAdd(BigMulSmall(BigNorm(qr[1]), 2), IF qr[2] # 0 THEN <<1>> ELSE <<>>)
    IN  FRound(X, 0 - (GuardBits + 1))

\* int(a)
FTrunc(a) == IF a.e >= 0 THEN BigToInt(BigShl(a.m, a.e)) ELSE BigToInt(BigShr(a.m, 0 - a.e))

\* round(a, 1): the tenths nearest to the exact value of a, ties to the even
\* tenth, as the float nearest to that decimal
FRoundTenths(a) ==
    IF a.m = <<>> THEN FZero
    ELSE IF a.e >= 0 THEN a
    ELSE LET Tenths(X, sh) ==
                 LET half == BigBit(X, sh - 1) = 1
                     sticky == \E k \in 0..(sh - 2) : BigBit(X, k) = 1
                     q == BigToInt(BigShr(X, sh))
                 IN  IF half /\ (sticky \/ q % 2 = 1) THEN q + 1 ELSE q
         IN  FDivInt(Tenths(BigMulSmall(a.m, 10), 0 - a.e), 10)

\* a <= n for an integer n >= 0
FLeqInt(a, n) == FTrunc(a) < n \/ a = FOfInt(n)

(***************************************************************************)
(* Overall confidence                                                      *)
(***************************************************************************)
\* the weights dictionary, as written: hundredths
WeightHundredths == [email |-> 20, phone |-> 15, full_name |-> 20,
                     skills |-> 30, experience |-> 10, education |-> 5]

weights == [k \in DOMAIN WeightHundredths |-> FDivInt(WeightHundredths[k], 100)]

RECURSIVE SumConfidence(_)
SumConfidence(items) ==
    IF items = <<>> THEN 0 ELSE Head(items).confidence + SumConfidence(Tail(items))

\* the float `total` before truncation
ConfidenceTotal(pd) ==
    LET \* total += avg_conf * weight for a list field, when the list is not empty
        AddAverage(total, entries, weight) ==
            IF entries # <<>>
            THEN FAdd(total, FMul(FDivInt(SumConfidence(entries), Len(entries)), weight))
            ELSE total
        \* total += conf * weight for a scalar field
        AddField(total, field, weight) == FAdd(total, FMul(FOfInt(field.confidence), weight))
        Fields(w) ==
            AddAverage(
              AddAverage(
                AddField(AddField(AddField(AddField(FOfInt(0), pd.email, w.email),
                                           pd.phone, w.phone),
                                  pd.full_name, w.full_name),
                         pd.years_of_experience, w.experience),
                pd.skills, w.skills),
              pd.education, w.education)
    IN  Fields(weights)

\* the total rounded to the nearest integer instead of truncated
OverallConfidenceRounded(pd) ==
    Min(100, FTrunc(FAdd(ConfidenceTotal(pd), FDivInt(1, 2))))

calculate_overall_confidence(pd) == Min(100, FTrunc(ConfidenceTotal(pd)))

MaxSkillItems == 3
MaxEduItems == 1

\* confidences the extractors give, and 100
ScalarConfidences == [email |-> {0, 100}, phone |-> {0, 100}, full_name |-> {0, 100},
                      years_of_experience |-> {0, 90, 100}]
SkillConfidences == {70, 90, 100}
EduConfidences == {60, 100}

\* lists of up to n items with the confidences cs, highest first
ConfidenceLists(cs, n) ==
    {q \in SeqsUpTo(cs, n) : \A k \in 1..(Len(q) - 1) : q[k] >= q[k + 1]}

ParsedRecords ==
    {[full_name |-> ExtractedField("", c1), email |-> ExtractedField("", c2),
      phone |-> ExtractedField("", c3), years_of_experience |-> ExtractedField(0, c4),
      skills |-> [k \in 1..Len(sk) |-> ExtractedField("", sk[k])],
      education |-> [k \in 1..Len(ed) |-> [confidence |-> ed[k]]]] :
        c1 \in ScalarConfidences.full_name, c2 \in ScalarConfidences.email,
        c3 \in ScalarConfidences.phone, c4 \in ScalarConfidences.years_of_experience,
        sk \in ConfidenceLists(SkillConfidences, MaxSkillItems),
        ed \in ConfidenceLists(EduConfidences, MaxEduItems)}

ConfInit ==
    /\ parsed \in ParsedRecords
    /\ upload = "None"
    /\ db = <<>>
    /\ args = "None"
    /\ first = <<>>
    /\ WorkIdle
    /\ text = ""
    /\ pc = "call"
    /\ ret = None
    /\ SecIdle
    /\ EnvIdle

ConfCall ==
    /\ pc = "call"
    /\ ret' = calculate_overall_confidence(parsed)
    /\ pc' = "done"
    /\ UNCHANGED <<text, secVars, envVars, reqVars>>

SpecConfidence == ConfInit /\ [][ConfCall]_vars

\* ---- C9 ----
\* 300 times the weighted sum: the scalar confidences and the list averages
\* with the weights in hundredths, over the common denominator 300 * n * m
\* (n, m the list lengths, 1 for an empty list)
WeightedSumScaled(pd) ==
    LET n == Max(1, Len(pd.skills))
        m == Max(1, Len(pd.education))
    IN  [num |-> n * m * (20 * pd.email.confidence + 15 * pd.phone.confidence
                          + 20 * pd.full_name.confidence
                          + 10 * pd.years_of_experience.confidence)
                 + 30 * m * SumConfidence(pd.skills)
                 + 5 * n * SumConfidence(pd.education),
         den |-> 100 * n * m]

\* C9: calculate_overall_confidence returns an integer in 0..100 that is the
\* truncated weighted sum (weights 0.20 email, 0.15 phone, 0.20 name, 0.30
\* skills' average, 0.10 experience, 0.05 education's average; an empty list
\* contributes 0); 100 when every confidence is 100, 0 when all are 0 and the
\* lists are empty.
C9_TruncatedWeightedSum ==
    pc = "done" =>
        LET w == WeightedSumScaled(parsed)
        IN  /\ ret \in 0..100
            /\ ret = Min(100, w.num \div w.den)

(***************************************************************************)
(* Rule 8: projects                                                        *)
(***************************************************************************)
AMBIGUOUS_SKILLS == {"c", "r", "go", "vue", "dart", "rust", "swift", "perl"}

\* The set literal in source order (a repeated entry written once).
KNOWN_SKILLS == <<
    "python", "javascript", "typescript", "java", "c++", "c#", "go", "rust",
    "ruby", "php", "swift", "kotlin", "scala", "perl", "r", "matlab", "dart",
    "c", "objective-c", "groovy", "lua", "haskell", "elixir", "clojure",
    "react", "angular", "vue", "nextjs", "nuxt", "svelte", "gatsby", "remix",
    "jquery", "bootstrap", "tailwind", "tailwindcss", "material-ui",
    "chakra", "html", "css", "sass", "scss", "less", "webpack", "vite",
    "parcel", "django", "flask", "fastapi", "express", "nestjs", "spring",
    "spring boot", "rails", "laravel", "asp.net", "gin", "fiber", "actix",
    "rocket", "sql", "postgresql", "postgres", "mysql", "mongodb", "redis",
    "elasticsearch", "dynamodb", "cassandra", "neo4j", "sqlite", "oracle",
    "mariadb", "couchdb", "firebase", "supabase", "prisma", "sqlalchemy",
    "sequelize", "mongoose", "aws", "azure", "gcp", "google cloud", "heroku",
    "vercel", "netlify", "docker", "kubernetes", "k8s", "terraform",
    "ansible", "jenkins", "gitlab", "github actions", "circleci", "travis",
    "nginx", "apache", "linux", "unix", "pandas", "numpy", "scikit-learn",
    "tensorflow", "pytorch", "keras", "spark", "hadoop", "airflow", "kafka",
    "flink", "dbt", "snowflake", "tableau", "power bi", "matplotlib",
    "seaborn", "plotly", "opencv", "nlp", "machine learning",
    "deep learning", "data science", "ai", "git", "github", "bitbucket",
    "jira", "confluence", "slack", "rest api", "graphql", "grpc",
    "websocket", "oauth", "jwt", "api", "microservices", "agile", "scrum",
    "kanban", "ci/cd", "devops", "testing", "jest", "pytest", "selenium",
    "cypress", "postman", "figma", "sketch", "adobe xd", "photoshop",
    "illustrator">>

KnownSkillSet == Range(KNOWN_SKILLS)

\* ACTION_VERBS without 'developed', 'built' and 'designed'
ActionVerbsWithoutBuild == {
    "created", "implemented", "fixed",
    "established", "launched", "deployed", "integrated", "optimized",
    "maintained", "managed", "led", "coordinated", "improved", "enhanced",
    "refactored", "migrated", "configured", "automated", "analyzed",
    "tested", "debugged", "resolved", "achieved", "reduced", "increased",
    "streamlined", "collaborated", "contributed", "utilized", "leveraged"}

ACTION_VERBS == {
    "developed", "created", "built", "implemented", "designed", "fixed",
    "established", "launched", "deployed", "integrated", "optimized",
    "maintained", "managed", "led", "coordinated", "improved", "enhanced",
    "refactored", "migrated", "configured", "automated", "analyzed",
    "tested", "debugged", "resolved", "achieved", "reduced", "increased",
    "streamlined", "collaborated", "contributed", "utilized", "leveraged"}

PROJECT_NOUN_SIGNALS == {
    "system", "app", "application", "clone", "portal", "dashboard", "engine",
    "api", "model", "detector", "bot", "platform", "website", "tool",
    "framework", "library", "service", "manager", "analyzer", "generator",
    "tracker", "monitor", "classifier", "predictor", "scraper", "crawler",
    "simulator", "calculator", "converter", "chatbot", "assistant",
    "interface", "pipeline", "network"}

TECH_STACK_LABELS == <<
    "tech stack:", "technology:", "technologies:", "key skills:",
    "environment:", "tools:", "stack:", "tech:">>

TECH_STACK_CONNECTORS == <<
    "using", "built with", "with", "powered by", "made with">>

stripSet(s, cs) == rstripSet(lstripSet(s, cs), cs)

\* re.split on a class of single characters
RECURSIVE SplitSet(_, _)
SplitSet(s, seps) ==
    LET hits == {k \in 1..Len(s) : At(s, k) \in seps}
    IN  IF hits = {} THEN <<s>>
        ELSE <<SubSeq(s, 1, FirstIndex(hits) - 1)>> \o SplitSet(From(s, FirstIndex(hits) + 1), seps)

StripAll(seq) == [k \in 1..Len(seq) |-> strip(seq[k])]
IsNonEmpty(x) == x # ""
NonEmpty(seq) == SelectSeq(seq, IsNonEmpty)

\* \w and \b
WordSet == LetterSet \cup DigitSet \cup {"_"}
IsWordAt(s, k) == k >= 1 /\ k <= Len(s) /\ At(s, k) \in WordSet
BoundaryAt(s, k) == IsWordAt(s, k - 1) # IsWordAt(s, k)

\* re.search(r'\b' + re.escape(w) + r'\b', s)
WordMatch(s, w) ==
    \E k \in 1..(Len(s) - Len(w) + 1) :
        StartsAt(s, w, k) /\ BoundaryAt(s, k) /\ BoundaryAt(s, k + Len(w))

\* skill.title() if len(skill) > 3 else skill.upper()
FormatSkill(skill) == IF Len(skill) > 3 THEN title(skill) ELSE upper(skill)

SmallWords == {"a", "an", "the", "of", "in", "on", "at", "to", "for", "and", "or", "but"}

is_title_case(t) ==
    LET words == splitWs(t)
    IN  /\ words # <<>>
        /\ \A k \in 1..Len(words) :
              LET word == words[k]
              IN  (\E j \in 1..Len(word) : At(word, j) \in LetterSet) =>
                      IF k = 1 THEN At(word, 1) \in UpperSet
                      ELSE \/ stripSet(lower(word), CharsOf("(),.-:")) \in SmallWords
                           \/ At(word, 1) \notin LowerSet

TechChars == LetterSet \cup DigitSet \cup {".", "#", "+", "-"}

looks_like_tech_stack(items) ==
    IF items = <<>> THEN FALSE
    ELSE IF Len(items) <= 2
    THEN \E k \in 1..Len(items) :
            \/ strip(lower(items[k])) \in KnownSkillSet
            \/ /\ Len(items[k]) <= 20
               /\ strip(items[k]) # ""
               /\ \A j \in 1..Len(strip(items[k])) : At(strip(items[k]), j) \in TechChars
    ELSE LET known_count == Cardinality({k \in 1..Len(items) :
                                            strip(lower(items[k])) \in KnownSkillSet})
             tech_pattern_count == Cardinality({k \in 1..Len(items) :
                                                   /\ Len(strip(items[k])) <= 20
                                                   /\ ~Contains(strip(items[k]), " ")})
         IN  known_count >= 1 \/ 2 * tech_pattern_count >= Len(items)

\* re.search(r'([^(]+)\s*\(([^)]+)\)\s*$', line): <<group 1, group 2>> or <<>>
ParenMatch(line) ==
    LET n == Len(line)
        Close(p) == LET cs == {q \in (p + 1)..n : At(line, q) = ")"}
                    IN  IF cs = {} THEN 0 ELSE FirstIndex(cs)
        ok == {p \in 2..n : /\ At(line, p) = "("
                            /\ At(line, p - 1) # "("
                            /\ Close(p) > p + 1
                            /\ \A j \in (Close(p) + 1)..n : At(line, j) \in SpaceSet}
    IN  IF ok = {} THEN <<>>
        ELSE LET p == FirstIndex(ok)
                 opens == {j \in 1..(p - 1) : At(line, j) = "("}
                 st == IF opens = {} THEN 1 ELSE LastIndex(opens) + 1
             IN  <<SubSeq(line, st, p - 1), SubSeq(line, p + 1, Close(p) - 1)>>

\* the leftmost match of \s+connector\s+ in s: the position of the connector, or 0
ConnectorPos(s, connector) ==
    LET hits == {k \in 2..Len(s) : /\ At(s, k - 1) \in SpaceSet
                                   /\ StartsAt(s, connector, k)
                                   /\ k + Len(connector) <= Len(s)
                                   /\ At(s, k + Len(connector)) \in SpaceSet}
    IN  IF hits = {} THEN 0 ELSE FirstIndex(hits)

\* re.split(r',\s*|\s+and\s+', s)
RECURSIVE SplitTechItems(_)
SplitTechItems(s) ==
    LET SepLen(k) ==
            IF At(s, k) = "," THEN 1 + RunLen(s, k + 1, SpaceSet)
            ELSE IF At(s, k) \in SpaceSet
            THEN LET r == RunLen(s, k, SpaceSet)
                     r2 == RunLen(s, k + r + 3, SpaceSet)
                 IN  IF StartsAt(s, "and", k + r) /\ r2 > 0 THEN r + 3 + r2 ELSE 0
            ELSE 0
        hits == {k \in 1..Len(s) : SepLen(k) > 0}
    IN  IF hits = {} THEN <<s>>
        ELSE LET k == FirstIndex(hits)
             IN  <<SubSeq(s, 1, k - 1)>> \o SplitTechItems(From(s, k + SepLen(k)))

\* the score as computed, not brought into 0..100
NormalizeConfidenceNone(confidence) == confidence

\* confidence = max(0, min(100, confidence))
NormalizeConfidence(confidence) == Max(0, Min(100, confidence))

\* _analyze_project_line under hash seed h:
\* [is_title, confidence, title, tech]
analyze_project_line(line, h) ==
    LET ruleA == IF endswith(line, ".") THEN -30 ELSE 0
        RuleB(words) ==
            IF words # <<>> /\ rstripSet(lower(words[1]), CharsOf(",.:;")) \in ACTION_VERBS
            THEN (IF Len(words) > 1 /\ ContainsAny(lower(words[2]), PROJECT_NOUN_SIGNALS)
                  THEN 10 ELSE -40)
            ELSE 0
        RuleC(line_lower) == IF ContainsAny(line_lower, PROJECT_NOUN_SIGNALS) THEN 25 ELSE 0
        ruleD == IF isupper(line) THEN 20
                 ELSE IF is_title_case(line) THEN 15
                 ELSE IF line # "" /\ At(line, 1) \in LowerSet THEN -15
                 ELSE 0
        RuleE(words) == IF Len(words) > 10 \/ Len(line) > 60 THEN -25
                        ELSE IF Len(words) <= 5 THEN 10
                        ELSE 0
        Rules(words, line_lower) ==
            50 + ruleA + RuleB(words) + RuleC(line_lower) + ruleD + RuleE(words)
        Analysis(confidence, clean_title, tech) ==
            [is_title |-> confidence >= 60,
             confidence |-> NormalizeConfidence(confidence),
             title |-> clean_title,
             tech |-> tech]
        \* the title and the stack around the connector found
        TitleAt(at) == strip(SubSeq(line, 1, at - 1))
        TechAt(connector, at) ==
            NonEmpty(StripAll(SplitTechItems(
                rstripSet(strip(From(line, at + Len(connector))), {"."}))))
        Connector(confidence, connector, at) ==
            Analysis(confidence + 10, TitleAt(at), TechAt(connector, at))
        Signals(confidence, paren_match, potential_tech, paren_tech, order, found) ==
            IF found # {}
            THEN Connector(confidence + (IF paren_tech THEN 15 ELSE 0),
                           order[FirstIndex(found)],
                           ConnectorPos(lower(line), order[FirstIndex(found)]))
            ELSE Analysis(confidence + (IF paren_tech THEN 15 ELSE 0),
                          IF paren_match # <<>> THEN strip(paren_match[1]) ELSE line,
                          IF paren_tech THEN potential_tech ELSE <<>>)
        Connectors(confidence, line_lower, paren_match, potential_tech, order) ==
            Signals(confidence, paren_match, potential_tech,
                    paren_match # <<>> /\ looks_like_tech_stack(potential_tech),
                    order, {k \in 1..Len(order) : ConnectorPos(line_lower, order[k]) > 0})
        Paren(line_lower, words, paren_match) ==
            Connectors(Rules(words, line_lower), line_lower, paren_match,
                       StripAll(SplitSet(paren_match[2], {",", "|", "/"})),
                       SetOrder(TECH_STACK_CONNECTORS, h))
    IN  Paren(strip(lower(line)), splitWs(line), ParenMatch(line))

\* _extract_tech_from_label
extract_tech_from_label(line, h) ==
    LET line_lower == lower(line)
        order == SetOrder(TECH_STACK_LABELS, h)
        hits == {k \in 1..Len(order) : Contains(line_lower, order[k])}
    IN  IF hits = {} THEN <<>>
        ELSE LET label == order[FirstIndex(hits)]
                 tech_part == strip(From(line, find(line_lower, label) + Len(label)))
             IN  NonEmpty(StripAll(SplitSet(tech_part, {",", "|", "/"})))

\* _extract_tech_from_text: the known skills found, in the table's iteration order
TechFromTable(text_lower, order) ==
    LET Found(skill) == skill \notin AMBIGUOUS_SKILLS /\ WordMatch(text_lower, skill)
        found_tech == SelectSeq(order, Found)
    IN  [k \in 1..Len(found_tech) |-> FormatSkill(found_tech[k])]
extract_tech_from_text(t, h) == TechFromTable(lower(t), SetOrder(KNOWN_SKILLS, h))

\* _extract_tech_from_descriptions: the loop over project['tech_stack']
RECURSIVE UniqueTech(_, _)
UniqueTech(tech_stack, seen) ==
    IF tech_stack = <<>> THEN <<>>
    ELSE LET formatted == strip(Head(tech_stack))
             tech_normalized == lower(formatted)
         IN  IF tech_normalized # "" /\ tech_normalized \notin seen
             THEN <<IF tech_normalized \in KnownSkillSet
                    THEN FormatSkill(formatted) ELSE formatted>>
                  \o UniqueTech(Tail(tech_stack), seen \cup {tech_normalized})
             ELSE UniqueTech(Tail(tech_stack), seen)

\* the project as collected: its tech stack is not finalized
TechStackAsCollected(project) == project

extract_tech_from_descriptions(project) ==
    IF project.tech_stack = <<>> THEN project
    ELSE [project EXCEPT !.tech_stack = UniqueTech(project.tech_stack, {})]

\* str.lstrip('-*  ') with the ASCII bullets (the others do not occur in ASCII text)
BulletSet == {"-", "*", " "}

\* one iteration of `for line in lines`; st = [projects, current_project],
\* current_project being <<>> for None and <<project>> otherwise
ProjectStep(st, raw, h) ==
    LET cur == st.current_project
        Description(desc_line) ==
            IF desc_line # ""
            THEN [st EXCEPT !.current_project[1].description = Append(@, desc_line),
                            !.current_project[1].tech_stack =
                                @ \o extract_tech_from_text(desc_line, h)]
            ELSE st
        Labelled(line, tech_from_line) ==
            IF tech_from_line # <<>>
            THEN [st EXCEPT !.current_project[1].tech_stack = @ \o tech_from_line]
            ELSE Description(strip(lstripSet(line, BulletSet)))
        Line(line, a) ==
            IF line = "" THEN st
            ELSE IF a.is_title /\ a.confidence >= 60
            THEN [projects |-> IF cur # <<>>
                               THEN Append(st.projects, extract_tech_from_descriptions(cur[1]))
                               ELSE st.projects,
                  current_project |-> <<[title |-> a.title, tech_stack |-> a.tech,
                                         description |-> <<>>, confidence |-> a.confidence]>>]
            ELSE IF cur # <<>> THEN Labelled(line, extract_tech_from_label(line, h))
            ELSE st
        Stripped(line) == Line(line, analyze_project_line(line, h))
    IN  Stripped(strip(raw))

RECURSIVE ProjectFold(_, _, _)
ProjectFold(st, ls, h) ==
    IF ls = <<>> THEN st ELSE ProjectFold(ProjectStep(st, Head(ls), h), Tail(ls), h)

extract_projects(t, h) ==
    LET Last(st) ==
            IF st.current_project # <<>>
            THEN Append(st.projects, extract_tech_from_descriptions(st.current_project[1]))
            ELSE st.projects
        Section(projects_text) ==
            IF projects_text = "" THEN <<>>
            ELSE Last(ProjectFold([projects |-> <<>>, current_project |-> <<>>],
                                  splitOn(projects_text, NL), h))
    IN  Section(SectionGet(sectionize(t), "projects", ""))

MaxProjLines == 2

ProjLineSet == {"E-Commerce Platform (React, Node, MongoDB)",
                "- Built the cart with Redis and Docker",
                "Tools: Python, AWS / Stack: Flask",
                "Chat App built with Flask and C++.",
                "developed the api.",
                "x"}

ProjTexts ==
    {a \o join(NL, ls) : a \in {"", "Projects\n"},
                         ls \in SeqsUpTo(ProjLineSet, MaxProjLines) \ {<<>>}}

ProjInit ==
    /\ text \in ProjTexts
    /\ hashseed \in HashSeeds
    /\ shared = {}
    /\ now = <<2026, 11, 5>>
    /\ pc = "call"
    /\ ret = None
    /\ SecIdle
    /\ ReqIdle

ProjCall ==
    /\ pc = "call"
    /\ ret' = extract_projects(text, hashseed)
    /\ pc' = "done"
    /\ UNCHANGED <<text, secVars, envVars, reqVars>>

SpecProjects == ProjInit /\ [][ProjCall]_vars

\* ---- C10 ----
\* C10: when the projects zone contains the line
\* 'E-Commerce Platform (React, Node, MongoDB)', extract_projects returns a
\* project with title 'E-Commerce Platform', final tech_stack exactly
\* <<'React', 'Node', 'MongoDB'>> and confidence at least 60.
C10_ECommerceProject ==
    (pc = "done" /\ \E k \in 1..Len(splitOn(SectionGet(sectionize(text), "projects", ""), NL)) :
                        splitOn(SectionGet(sectionize(text), "projects", ""), NL)[k]
                            = "E-Commerce Platform (React, Node, MongoDB)")
        => \E k \in 1..Len(ret) :
               /\ ret[k].title = "E-Commerce Platform"
               /\ ret[k].tech_stack = <<"React", "Node", "MongoDB">>
               /\ ret[k].confidence >= 60

(***************************************************************************)
(* Rule 2: email                                                           *)
(***************************************************************************)
TRUSTED_DOMAINS == {
    "gmail.com", "yahoo.com", "outlook.com", "hotmail.com", "icloud.com",
    "protonmail.com", "mail.com", "edu.in", "ac.in", "iitb.ac.in",
    "iitd.ac.in", "iitk.ac.in", "iitkgp.ac.in", "bits-pilani.ac.in",
    "nitrkl.ac.in"}

EmailLocalSet == LetterSet \cup DigitSet \cup {".", "_", "%", "+", "-"}
EmailDomainSet == LetterSet \cup DigitSet \cup {".", "-"}

\* the length of the longest run of characters of cs that ends just before k
RunLenBack(s, k, cs) ==
    LET stops == {j \in 1..(k - 1) : At(s, j) \notin cs}
    IN  IF stops = {} THEN k - 1 ELSE k - 1 - LastIndex(stops)

\* EMAIL_REGEX with its '@' at position a: <<start, end>> of the match, or <<>>.
\* The domain run is greedy and gives characters back to the last '.' that is
\* followed by two letters.
EmailAt(s, a) ==
    LET loc == RunLenBack(s, a, EmailLocalSet)
        d == RunLen(s, a + 1, EmailDomainSet)
        dots == {j \in 1..(d - 1) : /\ At(s, a + 1 + j) = "."
                                    /\ RunLen(s, a + 2 + j, LetterSet) >= 2}
    IN  IF At(s, a) # "@" \/ loc = 0 \/ dots = {} THEN <<>>
        ELSE LET j == LastIndex(dots)
             IN  <<a - loc, a + 1 + j + RunLen(s, a + 2 + j, LetterSet)>>

\* extract_email with 'Unknown' for the value of a text without an address
EmailUnknownWhenAbsent(t) ==
    LET ats == {a \in 1..Len(t) : EmailAt(t, a) # <<>>}
    IN  IF ats = {} THEN ExtractedField("Unknown", 0)
        ELSE LET mt == EmailAt(t, FirstIndex(ats))
                 email == lower(SubSeq(t, mt[1], mt[2]))
                 domain == From(email, find(email, "@") + 1)
                 is_trusted == domain \in TRUSTED_DOMAINS
                 is_educational == endswith(domain, ".edu.in") \/ endswith(domain, ".ac.in")
             IN  ExtractedField(email, IF is_trusted \/ is_educational THEN 100 ELSE 80)

extract_email(t) ==
    LET ats == {a \in 1..Len(t) : EmailAt(t, a) # <<>>}
    IN  IF ats = {} THEN ExtractedField("", 0)
        ELSE LET mt == EmailAt(t, FirstIndex(ats))
                 email == lower(SubSeq(t, mt[1], mt[2]))
                 domain == From(email, find(email, "@") + 1)
                 is_trusted == domain \in TRUSTED_DOMAINS
                 is_educational == endswith(domain, ".edu.in") \/ endswith(domain, ".ac.in")
             IN  ExtractedField(email, IF is_trusted \/ is_educational THEN 100 ELSE 80)

(***************************************************************************)
(* Rule 6: skills                                                          *)
(***************************************************************************)
\* re.search(rf'(?:^|,\s*){skill}(?:\s*,|\s*$)', s)
CommaMatch(s, skill) ==
    \E k \in 1..(Len(s) - Len(skill) + 1) :
        /\ StartsAt(s, skill, k)
        /\ \/ k = 1
           \/ LET b == RunLenBack(s, k, SpaceSet) IN k - b > 1 /\ At(s, k - b - 1) = ","
        /\ LET e == k + Len(skill) + RunLen(s, k + Len(skill), SpaceSet)
           IN  e > Len(s) \/ At(s, e) = ","

\* _extract_skills_from_text over the table in the iteration order `order`
SkillsFromTable(text_lower, confidence, order) ==
    LET Found(skill) == IF skill \in AMBIGUOUS_SKILLS THEN CommaMatch(text_lower, skill)
                        ELSE WordMatch(text_lower, skill)
        found == SelectSeq(order, Found)
    IN  [k \in 1..Len(found) |->
            IF found[k] \in AMBIGUOUS_SKILLS
            THEN ExtractedField(upper(found[k]), confidence - 5)
            ELSE ExtractedField(FormatSkill(found[k]), confidence)]

extract_skills_from_text(t, is_skills_zone, h) ==
    SkillsFromTable(lower(t), IF is_skills_zone THEN 90 ELSE 70, SetOrder(KNOWN_SKILLS, h))

\* the loops without found_skill_names: every skill is appended
AddSkillsUnseen(found_skills, new) == found_skills \o new

\* the loops that append the skills not yet in found_skill_names
RECURSIVE AddSkills(_, _)
AddSkills(found_skills, new) ==
    IF new = <<>> THEN found_skills
    ELSE AddSkills(IF \E k \in 1..Len(found_skills) :
                          lower(found_skills[k].value) = lower(Head(new).value)
                   THEN found_skills ELSE Append(found_skills, Head(new)),
                   Tail(new))

extract_skills(t, h) ==
    LET Fallback(zone_skills) ==
            IF Len(zone_skills) < 3
            THEN AddSkills(zone_skills, extract_skills_from_text(t, FALSE, h))
            ELSE zone_skills
        Zone(skills_zone) ==
            Fallback(IF skills_zone # ""
                     THEN AddSkills(<<>>, extract_skills_from_text(skills_zone, TRUE, h))
                     ELSE <<>>)
    IN  Zone(SectionGet(sectionize(t), "skills", ""))

(***************************************************************************)
(* Rule 7: location                                                        *)
(***************************************************************************)
INDIAN_CITIES == <<
    "bangalore", "bengaluru", "mumbai", "delhi", "new delhi", "hyderabad",
    "chennai", "pune", "kolkata", "ahmedabad", "jaipur", "noida", "gurgaon",
    "gurugram", "ghaziabad", "faridabad", "lucknow", "kanpur", "nagpur",
    "indore", "bhopal", "patna", "vadodara", "surat", "kochi",
    "thiruvananthapuram", "coimbatore", "visakhapatnam", "chandigarh",
    "mysore", "mangalore", "rourkela", "bhubaneswar", "cuttack">>

INDIAN_STATES == <<
    "andhra pradesh", "arunachal pradesh", "assam", "bihar", "chhattisgarh",
    "goa", "gujarat", "haryana", "himachal pradesh", "jharkhand",
    "karnataka", "kerala", "madhya pradesh", "maharashtra", "manipur",
    "meghalaya", "mizoram", "nagaland", "odisha", "punjab", "rajasthan",
    "sikkim", "tamil nadu", "telangana", "tripura", "uttar pradesh",
    "uttarakhand", "west bengal", "delhi", "jammu and kashmir", "ladakh">>

\* the dict, as <<prefix, city>> pairs
PINCODE_CITY_MAP == <<<<"560", "Bangalore">>, <<"400", "Mumbai">>, <<"110", "Delhi">>, 
    <<"500", "Hyderabad">>, <<"600", "Chennai">>, <<"411", "Pune">>, 
    <<"700", "Kolkata">>, <<"380", "Ahmedabad">>, <<"302", "Jaipur">>, 
    <<"201", "Noida">>, <<"122", "Gurgaon">>, <<"769", "Rourkela">>, 
    <<"751", "Bhubaneswar">>>>

\* PINCODE_REGEX.findall(text): \b[1-9]\d{5}\b
PincodeAt(s, k) ==
    /\ DigitsRun(s, k, 6)
    /\ At(s, k) # "0"
    /\ ~IsWordAt(s, k - 1)
    /\ ~IsWordAt(s, k + 6)

extract_location(t, h) ==
    LET text_lower == lower(t)
        mapped == {k \in 1..Len(t) : /\ PincodeAt(t, k)
                                     /\ \E p \in 1..Len(PINCODE_CITY_MAP) :
                                            PINCODE_CITY_MAP[p][1] = SubSeq(t, k, k + 2)}
        cities == SetOrder(INDIAN_CITIES, h)
        city_hits == {k \in 1..Len(cities) : Contains(text_lower, cities[k])}
        states == SetOrder(INDIAN_STATES, h)
        state_hits == {k \in 1..Len(states) : Contains(text_lower, states[k])}
    IN  IF mapped # {}
        THEN LET k == FirstIndex(mapped)
                 p == CHOOSE q \in 1..Len(PINCODE_CITY_MAP) :
                          PINCODE_CITY_MAP[q][1] = SubSeq(t, k, k + 2)
             IN  ExtractedField(PINCODE_CITY_MAP[p][2] \o " (" \o SubSeq(t, k, k + 5) \o ")", 90)
        ELSE IF city_hits # {} THEN ExtractedField(title(cities[FirstIndex(city_hits)]), 85)
        ELSE IF state_hits # {} THEN ExtractedField(title(states[FirstIndex(state_hits)]), 70)
        ELSE ExtractedField("", 0)

(***************************************************************************)
(* Rule 5: work experience entries                                         *)
(***************************************************************************)
JOB_TITLE_KEYWORDS == {
    "intern", "internship", "trainee", "associate", "assistant", "developer",
    "engineer", "analyst", "designer", "architect", "manager", "lead",
    "senior", "junior", "principal", "staff", "consultant", "specialist",
    "administrator", "coordinator", "executive", "officer", "head",
    "director", "vp", "cto", "ceo"}

\* DATE_RANGE_REGEX.search(line).group(0), or None
DateRangeSearch(line) ==
    LET Group0(ms, k) == SubSeq(line, k, k + ms[k][3] - 1)
        Leftmost(ms, hits) == IF hits = {} THEN None ELSE Group0(ms, FirstIndex(hits))
        Search(ms) == Leftmost(ms, {k \in DOMAIN ms : ms[k] # <<>>})
    IN  Search(DateRangeMatches(line))

is_job_title_line(line) ==
    LET Words(line_lower, words) ==
            /\ words # <<>>
            /\ rstripSet(words[1], CharsOf(",.:;")) \notin ACTION_VERBS
            /\ ~endswith(line, ".")
            /\ ~startswith(line, "-")
            /\ ~startswith(line, "*")
            /\ \E keyword \in JOB_TITLE_KEYWORDS : WordMatch(line_lower, keyword)
        Lowered(line_lower) == Words(line_lower, splitWs(line_lower))
    IN  Lowered(lower(line))

\* the ASCII separators of _split_title_company, in order; "," stands for r',\s+'
TitleSeparators == <<"|", "-", "at", "for", ",">>

\* the leftmost match of a separator: <<start, end>> of the match, or <<>>
SeparatorAt(line, sep) ==
    LET FirstComma(commas) == IF commas = {} THEN 0 ELSE FirstIndex(commas)
        Span(k) ==
            IF k = 0 THEN <<>>
            ELSE IF sep = "," THEN <<k, k + RunLen(line, k + 1, SpaceSet)>>
            ELSE <<k - RunLenBack(line, k, SpaceSet),
                   k + Len(sep) - 1 + RunLen(line, k + Len(sep), SpaceSet)>>
    IN  Span(IF sep = ","
             THEN FirstComma({k \in 1..(Len(line) - 1) :
                                 At(line, k) = "," /\ At(line, k + 1) \in SpaceSet})
             ELSE ConnectorPos(lower(line), sep))

split_title_company(line) ==
    LET Split(mt) == <<strip(SubSeq(line, 1, mt[1] - 1)), strip(From(line, mt[2] + 1))>>
        First(spans, found) ==
            IF found = {} THEN <<line, "">> ELSE Split(spans[FirstIndex(found)])
        Separators(spans) == First(spans, {k \in DOMAIN spans : spans[k] # <<>>})
    IN  Separators([k \in 1..Len(TitleSeparators) |-> SeparatorAt(line, TitleSeparators[k])])

\* one iteration of `for line in lines`; st = [experiences, current_exp],
\* current_exp being <<>> for None and <<entry>> otherwise
WorkStep(st, raw) ==
    LET cur == st.current_exp
        Title(tc, date_match) ==
            [experiences |-> st.experiences \o cur,
             current_exp |-> <<[title |-> tc[1], company |-> tc[2],
                                duration |-> IF date_match # None THEN date_match ELSE "",
                                description |-> <<>>]>>]
        Dated(date_match) ==
            IF cur # <<>> /\ cur[1].duration = ""
            THEN [st EXCEPT !.current_exp[1].duration = date_match]
            ELSE IF cur # <<>> THEN st
            ELSE [st EXCEPT !.current_exp = <<[title |-> "", company |-> "",
                                               duration |-> date_match,
                                               description |-> <<>>]>>]
        Described(line, clean_line) ==
            IF /\ cur[1].company = ""
               /\ Len(splitWs(line)) <= 6
               /\ ~startswith(clean_line, "I ")
               /\ ~startswith(clean_line, "We ")
            THEN [st EXCEPT !.current_exp[1].company = line]
            ELSE [st EXCEPT !.current_exp[1].description = Append(@, clean_line)]
        Line(line, date_match) ==
            IF line = "" THEN st
            ELSE IF is_job_title_line(line) THEN Title(split_title_company(line), date_match)
            ELSE IF date_match # None THEN Dated(date_match)
            ELSE IF cur # <<>> THEN Described(line, strip(lstripSet(line, BulletSet)))
            ELSE st
        Stripped(line) == Line(line, DateRangeSearch(line))
    IN  Stripped(strip(raw))

RECURSIVE WorkFold(_, _)
WorkFold(st, ls) == IF ls = <<>> THEN st ELSE WorkFold(WorkStep(st, Head(ls)), Tail(ls))

extract_work_experience(t) ==
    LET Last(st) == st.experiences \o st.current_exp
        Section(exp_text) ==
            IF exp_text = "" THEN <<>>
            ELSE Last(WorkFold([experiences |-> <<>>, current_exp |-> <<>>],
                               splitOn(exp_text, NL)))
    IN  Section(SectionGet(sectionize(t), "experience", ""))

(***************************************************************************)
(* The extractors, one call each                                           *)
(***************************************************************************)
ScalarExtractors == {"extract_email", "extract_phone", "extract_name",
                     "extract_experience_years", "extract_location"}
ListExtractors == {"extract_education", "extract_work_experience",
                   "extract_projects", "extract_skills"}

\* parser.<f>(text) in a process with hash seed h on the day today
Extract(f, t, h, today) ==
    CASE f = "extract_email" -> extract_email(t)
      [] f = "extract_phone" -> extract_phone(t)
      [] f = "extract_name" -> extract_name(t)
      [] f = "extract_experience_years" -> extract_experience_years(t, today)
      [] f = "extract_location" -> extract_location(t, h)
      [] f = "extract_education" -> extract_education(t, h)
      [] f = "extract_work_experience" -> extract_work_experience(t)
      [] f = "extract_projects" -> extract_projects(t, h)
      [] f = "extract_skills" -> extract_skills(t, h)

MaxBlank == 2

ResumeTexts ==
    {"Asha Rao\nasha.rao@gmail.com\n+91 98765 43210\nPune, Mumbai\nSkills\nPython, Java\nExperience\nSoftware Engineer at Acme\nJan 2022 - Present",
     "Projects\nE-Commerce Platform (React, Node, MongoDB)\nEducation\nB.Tech in CS\nIIT Delhi",
     "Ravi Kumar\nravi@example.org\nEducation\nMBA, XLRI College 2020\nSummary\nTen years in sales"}

ExtractorTexts ==
    ResumeTexts
    \cup {Repeat(b, n) : b \in {" ", NL, "-", "x"}, n \in 0..MaxBlank}
    \cup {"call me", "2 + 2 = 4", "Experience\n\nProjects\n\nSkills\n\nEducation\n"}

ExtInit ==
    /\ text \in ExtractorTexts
    /\ hashseed \in HashSeeds
    /\ shared = {}
    /\ now \in Todays
    /\ pc = "call"
    /\ ret = None
    /\ SecIdle
    /\ ReqIdle

ExtCall(f) ==
    /\ pc = "call"
    /\ ret' = Extract(f, text, hashseed, now)
    /\ pc' = f
    /\ UNCHANGED <<text, secVars, envVars, reqVars>>

ExtNext == \E f \in ScalarExtractors \cup ListExtractors : ExtCall(f)

SpecExtractors == ExtInit /\ [][ExtNext]_vars

\* ---- C4 ----
Sentinel == [extract_email |-> "", extract_phone |-> "", extract_location |-> "",
             extract_name |-> "Unknown", extract_experience_years |-> 0]

\* Texts in which the extractor f has nothing to find.
NothingToFind(f, t) ==
    CASE f = "extract_email" -> ~Contains(t, "@")
      [] f = "extract_phone" -> Len(DigitsOnly(t)) < 10
      [] f = "extract_name" -> \A k \in 1..Len(t) : At(t, k) \notin UpperSet
      [] f = "extract_experience_years" -> \A k \in 1..Len(t) : At(t, k) \notin DigitSet
      [] f = "extract_location" ->
            /\ \A k \in 1..Len(t) : At(t, k) \notin DigitSet
            /\ ~ContainsAny(lower(t), Range(INDIAN_CITIES) \cup Range(INDIAN_STATES))
      [] f = "extract_education" -> ~ContainsAny(lower(t), Range(DEGREE_KEYWORDS))
      [] f = "extract_work_experience" -> \A k \in 1..Len(t) : At(t, k) \notin LetterSet
      [] f = "extract_projects" -> \A k \in 1..Len(t) : At(t, k) \notin LetterSet
      [] f = "extract_skills" -> ~ContainsAny(lower(t), KnownSkillSet)

\* C4: every scalar extractor returns a value with an integer confidence in
\* 0..100, and its sentinel ('' for email, phone, location, 'Unknown' for the
\* name, 0 for the years) with confidence 0 when the text has nothing for it
\* to find; a list extractor then returns the empty list.
C4_ExtractorsTotal ==
    /\ \A f \in ScalarExtractors :
          pc = f => /\ ret.confidence \in 0..100
                    /\ ret.confidence = 0 => ret.value = Sentinel[f]
                    /\ NothingToFind(f, text) => ret = ExtractedField(Sentinel[f], 0)
    /\ \A f \in ListExtractors :
          pc = f => /\ DOMAIN ret = 1..Len(ret)
                    /\ NothingToFind(f, text) => ret = <<>>

\* extract_email has returned its sentinel for a text without an address
C4_Witness ==
    /\ pc = "extract_email"
    /\ text = "call me"
    /\ ret = ExtractedField("", 0)

(***************************************************************************)
(* The orchestrator: POST /api/resume/parse                                *)
(***************************************************************************)
\* the keys of `parsed`, in the order the dictionary literal evaluates them
ParsedKeys == <<"full_name", "email", "phone", "years_of_experience", "skills",
                "education", "work_experience", "projects">>

\* the dictionary `parsed`
ParsedOf(t, h, today) ==
    [full_name |-> extract_name(t),
     email |-> extract_email(t),
     phone |-> extract_phone(t),
     years_of_experience |-> extract_experience_years(t, today),
     skills |-> extract_skills(t, h),
     education |-> extract_education(t, h),
     work_experience |-> extract_work_experience(t),
     projects |-> extract_projects(t, h)]

\* the ParsedResume returned for the candidate row id
ResponseOf(pd, t, id) ==
    [status |-> 200,
     id |-> id,
     full_name |-> pd.full_name,
     email |-> pd.email,
     phone |-> pd.phone,
     years_of_experience |-> pd.years_of_experience,
     skills |-> pd.skills,
     education |-> pd.education,
     work_experience |-> pd.work_experience,
     projects |-> pd.projects,
     preferred_locations |-> <<>>,
     preferred_roles |-> <<>>,
     expected_salary |-> None,
     overall_confidence |-> calculate_overall_confidence(pd),
     raw_text |-> SubSeq(t, 1, Min(2000, Len(t)))]

\* the Candidate row built from `parsed` and the text
CandidateRow(pd, t) ==
    [full_name |-> pd.full_name.value,
     email |-> pd.email.value,
     phone |-> pd.phone.value,
     years_of_experience |-> pd.years_of_experience.value,
     raw_resume_text |-> t,
     education |-> pd.education,
     work_experience |-> pd.work_experience,
     projects |-> pd.projects,
     confidence_scores |-> [full_name |-> pd.full_name.confidence,
                            email |-> pd.email.confidence,
                            overall |-> calculate_overall_confidence(pd)],
     preferred_locations |-> <<>>,
     preferred_roles |-> <<>>]

MinTextLen == 50

RequestTexts == ResumeTexts \cup {"Asha Rao"}

ReqInit ==
    /\ text \in RequestTexts
    /\ hashseed \in HashSeeds
    /\ shared = {}
    /\ now \in Todays
    /\ pc = "request"
    /\ ret = None
    /\ ReqIdle
    /\ SecIdle

\* the text is too short: HTTP 400
ParseRejected ==
    /\ pc = "request"
    /\ Len(strip(text)) < MinTextLen
    /\ ret' = [status |-> 400]
    /\ pc' = "done"
    /\ UNCHANGED <<text, secVars, envVars, reqVars>>

\* every extractor returns, the row is saved, the record is returned
ParseResume ==
    /\ pc = "request"
    /\ Len(strip(text)) >= MinTextLen
    /\ parsed' = ParsedOf(text, hashseed, now)
    /\ db' = Append(db, CandidateRow(parsed', text))
    /\ ret' = ResponseOf(parsed', text, Len(db'))
    /\ pc' = "done"
    /\ UNCHANGED <<text, secVars, envVars, upload, args, first, workVars>>

\* the commit fails: rollback, HTTP 500 with the database error
ParseDbError ==
    /\ pc = "request"
    /\ Len(strip(text)) >= MinTextLen
    /\ parsed' = ParsedOf(text, hashseed, now)
    /\ ret' = [status |-> 500, detail |-> "Database error while saving candidate"]
    /\ pc' = "done"
    /\ UNCHANGED <<text, secVars, envVars, upload, db, args, first, workVars>>

\* the extractor of the key `key` raises: nothing between lines 52 and 61
\* catches, the exception leaves parse_resume and the request fails
ParseExtractorError(key) ==
    /\ pc = "request"
    /\ Len(strip(text)) >= MinTextLen
    /\ parsed' = [raised |-> key]
    /\ ret' = [status |-> 500, detail |-> "Internal Server Error"]
    /\ pc' = "raised"
    /\ UNCHANGED <<text, secVars, envVars, upload, db, args, first, workVars>>

\* the same text is posted again, later and possibly to another process
NextRequest ==
    /\ pc = "done"
    /\ first = <<>>
    /\ ret.status = 200
    /\ first' = <<ret>>
    /\ ret' = None
    /\ parsed' = None
    /\ pc' = "request"
    /\ hashseed' \in HashSeeds
    /\ shared' = {}
    /\ now' \in Todays
    /\ UNCHANGED <<text, secVars, upload, db, args, workVars>>

ReqNext ==
    \/ ParseRejected
    \/ ParseResume
    \/ ParseDbError
    \/ \E k \in 1..Len(ParsedKeys) : ParseExtractorError(ParsedKeys[k])
    \/ NextRequest

SpecParseResume == ReqInit /\ [][ReqNext]_vars

\* the extracted fields of a response: all of it but the row id
RecordOf(r) == [k \in (DOMAIN r) \ {"id"} |-> r[k]]

\* ---- C2 ----
\* C2: two runs of the pipeline on the same text return identical records,
\* list order and chosen candidates included, whatever the process's table
\* iteration order and the time of the run.
C2_RunsAgree ==
    (pc = "done" /\ first # <<>> /\ ret.status = 200) => RecordOf(ret) = RecordOf(first[1])

\* ---- C3 ----
\* the zero-confidence value of a field
ZeroConfidence(key) ==
    CASE key = "full_name" -> ExtractedField("Unknown", 0)
      [] key = "years_of_experience" -> ExtractedField(0, 0)
      [] key \in {"email", "phone"} -> ExtractedField("", 0)
      [] OTHER -> <<>>

\* C3: when one extractor raises, parse_resume still answers with a record in
\* which that field has confidence 0 and an empty or 'Unknown' value and every
\* other field is what its extractor returns.
C3_ExtractorErrorContained ==
    pc = "raised" =>
        /\ ret.status = 200
        /\ LET pd == ParsedOf(text, hashseed, now)
           IN  \A k \in 1..Len(ParsedKeys) :
                   LET key == ParsedKeys[k]
                   IN  ret[key] = IF key = parsed.raised THEN ZeroConfidence(key)
                                  ELSE pd[key]

(***************************************************************************)
(* The projects scan on sentences that start with an action verb           *)
(***************************************************************************)
\* a sentence is first word, second word, tail, end
SentenceVerbs == {"Developed", "BUILT", "Designed,"}
SentenceSeconds == {"a", "A", "THE", "Dashboard"}
SentenceTails == {"", " REST API for inventory management", " PORTAL USING REACT",
                  " Tracker with Java"}
SentenceEnds == {".", ""}
\* the lines of the zone before the sentence
SentenceLeads == {"", "Chat App\n"}

Sentence(verb, second, tail, end_) == verb \o " " \o second \o tail \o end_

SentenceTexts ==
    {"Projects\n" \o lead \o Sentence(verb, second, tail, end_) :
        lead \in SentenceLeads, verb \in SentenceVerbs, second \in SentenceSeconds,
        tail \in SentenceTails, end_ \in SentenceEnds}

SentenceInit ==
    /\ text \in SentenceTexts
    /\ hashseed \in HashSeeds
    /\ shared = {}
    /\ now = <<2026, 11, 5>>
    /\ pc = "call"
    /\ ret = None
    /\ SecIdle
    /\ ReqIdle

SpecProjectSentences == SentenceInit /\ [][ProjCall]_vars

SkillLeads == {"", "Knows PYTHON and aws\n", "Docker, Java, c, r\n"}
SkillZones == {"", "Python", "Python, Java", "Python, Java, Go",
               "python, JAVA, Docker, AWS", "C, R"}
SkillTails == {"", "\nProjects\nShop built with React and python"}

SkillTexts ==
    {lead \o tail : lead \in SkillLeads \ {""}, tail \in SkillTails}
    \cup {lead \o "Skills\n" \o zone \o tail :
             lead \in SkillLeads, zone \in SkillZones, tail \in SkillTails}

SkillsInit ==
    /\ text \in SkillTexts
    /\ hashseed \in HashSeeds
    /\ shared = {}
    /\ now = <<2026, 11, 5>>
    /\ pc = "call"
    /\ ret = None
    /\ SecIdle
    /\ ReqIdle

SkillsCall ==
    /\ pc = "call"
    /\ ret' = extract_skills(text, hashseed)
    /\ pc' = "done"
    /\ UNCHANGED <<text, secVars, envVars, reqVars>>

SpecSkills == SkillsInit /\ [][SkillsCall]_vars

\* ---- C12 ----
\* the entries found in the skills zone carry confidence 90 (85 when ambiguous)
FromZone(skill) == skill.confidence \in {90, 85}

\* C12: the whole document is searched only when the skills zone gave fewer
\* than 3 skills: with 3 or more zone skills every returned skill is a zone
\* skill, the zone skills come before the fallback skills, every zone skill is
\* written in the zone, and no two returned skills are equal ignoring case.
C12_ZoneFirstNoDuplicates ==
    pc = "done" =>
        LET zone == lower(SectionGet(sectionize(text), "skills", ""))
            zoned == {k \in 1..Len(ret) : FromZone(ret[k])}
        IN  /\ Cardinality(zoned) >= 3 => zoned = 1..Len(ret)
            /\ \A j \in zoned : \A k \in 1..j : k \in zoned
            /\ \A k \in zoned : Contains(zone, lower(ret[k].value))
            /\ \A k \in 1..Len(ret) : Contains(lower(text), lower(ret[k].value))
            /\ \A j, k \in 1..Len(ret) :
                   lower(ret[j].value) = lower(ret[k].value) => j = k

\* Two zone skills, then the fallback: Python is in the zone and in the text
\* around it and is returned once; Aws and React come from the fallback.
C12_Witness ==
    /\ pc = "done"
    /\ text = "Knows PYTHON and aws\nSkills\nPython, Java\nProjects\nShop built with React and python"
    /\ Len(ret) = 4
    /\ {ret[1].value, ret[2].value} = {"Python", "Java"}
    /\ {ret[3].value, ret[4].value} = {"AWS", "React"}
    /\ ret[3].confidence = 70

(***************************************************************************)
(* Two requests in one process: the extractors on the shared `parser`      *)
(***************************************************************************)
\* the two parses in flight
Parses == {1, 2}

\* the method that evaluates each key of the dictionary `parsed`
MethodOf(key) ==
    CASE key = "full_name" -> "extract_name"
      [] key = "email" -> "extract_email"
      [] key = "phone" -> "extract_phone"
      [] key = "years_of_experience" -> "extract_experience_years"
      [] key = "skills" -> "extract_skills"
      [] key = "education" -> "extract_education"
      [] key = "work_experience" -> "extract_work_experience"
      [] key = "projects" -> "extract_projects"

\* what parser.<f>(t) assigns outside its own frame, as <<object, key, value>>:
\* no method assigns to an attribute of self or adds to, removes from or
\* reorders a class-level table; _extract_tech_from_descriptions assigns
\* project['tech_stack'] of the dictionary extract_projects built in the call
SharedWritesLearning(f, t) ==
    IF f = "extract_projects" THEN {<<"KNOWN_SKILLS", "add", lower(t)>>} ELSE {}

SharedWrites(f, t) == {}

\* two different documents, posted to the same process
ConcurrentInit ==
    /\ text \in {<<a, b>> : a \in ResumeTexts, b \in ResumeTexts}
    /\ text[1] # text[2]
    /\ hashseed \in HashSeeds
    /\ shared = {}
    /\ now = <<2026, 11, 5>>
    /\ pc = <<"extract", "extract">>
    /\ parsed = <<<<>>, <<>>>>
    /\ ret = None
    /\ upload = "None"
    /\ db = <<>>
    /\ args = "None"
    /\ first = <<>>
    /\ WorkIdle
    /\ SecIdle

\* parse p evaluates the next entry of its dictionary `parsed`; parsed[p] holds
\* the values of the keys evaluated so far, in the order of ParsedKeys
ExtractStep(p) ==
    /\ pc[p] = "extract"
    /\ LET Call(f) ==
               /\ parsed' = [parsed EXCEPT ![p] = Append(@, Extract(f, text[p], hashseed, now))]
               /\ shared' = shared \cup SharedWrites(f, text[p])
       IN  Call(MethodOf(ParsedKeys[Len(parsed[p]) + 1]))
    /\ pc' = [pc EXCEPT ![p] = IF Len(parsed[p]) + 1 = Len(ParsedKeys)
                               THEN "done" ELSE "extract"]
    /\ UNCHANGED <<text, secVars, hashseed, now, ret, upload, db, args, first, workVars>>

ConcurrentNext == \E p \in Parses : ExtractStep(p)

SpecConcurrent == ConcurrentInit /\ [][ConcurrentNext]_vars

PdfType == "application/pdf"
DocxType == "application/vnd.openxmlformats-officedocument.wordprocessingml.document"

\* allowed_types
AllowedTypes == {PdfType, DocxType}

\* str(e) of the exception the decoding library raises on bytes it cannot read
DecodeErrors == {"", "File is not a zip file", "No /Root object! - Is this really a PDF?"}

\* an uploaded file: a document with its text, or bytes the library cannot read
Contents ==
    {[kind |-> "document", text |-> t] : t \in RequestTexts \cup {"", "   \n "}}
    \cup {[kind |-> "malformed", error |-> e] : e \in DecodeErrors}

Uploads == {[content_type |-> ct, content |-> c] :
               ct \in AllowedTypes \cup {"text/plain"}, c \in Contents}

\* extract_text_from_pdf: every exception becomes a bracketed message that is
\* returned as the text
extract_text_from_pdf(content, installed) ==
    IF ~installed THEN "[PDF parsing library not available]"
    ELSE IF content.kind = "malformed" THEN "[PDF parsing error: " \o content.error \o "]"
    ELSE content.text

\* extract_text_from_docx
extract_text_from_docx(content, installed) ==
    IF ~installed THEN "[DOCX parsing library not available]"
    ELSE IF content.kind = "malformed" THEN "[DOCX parsing error: " \o content.error \o "]"
    ELSE content.text

UploadInit ==
    /\ upload \in Uploads
    /\ hashseed \in HashSeeds
    /\ shared = {}
    /\ now = <<2026, 11, 5>>
    /\ pc = "request"
    /\ text = None
    /\ ret = None
    /\ parsed = None
    /\ db = <<>>
    /\ args = "None"
    /\ first = <<>>
    /\ WorkIdle
    /\ SecIdle

\* the content type is not allowed: HTTP 400
UploadRejected ==
    /\ pc = "request"
    /\ upload.content_type \notin AllowedTypes
    /\ ret' = [status |-> 400, detail |-> "Invalid file type"]
    /\ pc' = "done"
    /\ UNCHANGED <<text, secVars, envVars, reqVars>>

\* the file is read and handed to the decoder of its type, which returns a
\* string whatever happens: the handler around the call catches nothing
UploadDecoded ==
    /\ pc = "request"
    /\ upload.content_type \in AllowedTypes
    /\ \E installed \in BOOLEAN :
           text' = IF upload.content_type = PdfType
                   THEN extract_text_from_pdf(upload.content, installed)
                   ELSE extract_text_from_docx(upload.content, installed)
    /\ pc' = "decoded"
    /\ UNCHANGED <<ret, secVars, envVars, reqVars>>

\* `if not text or len(text.strip()) < 50`: HTTP 400
UploadTooShort ==
    /\ pc = "decoded"
    /\ Len(strip(text)) < MinTextLen
    /\ ret' = [status |-> 400, detail |-> "Could not extract sufficient text from the document."]
    /\ pc' = "done"
    /\ UNCHANGED <<text, secVars, envVars, reqVars>>

\* the extractors run on the text
UploadExtracted ==
    /\ pc = "decoded"
    /\ Len(strip(text)) >= MinTextLen
    /\ parsed' = ParsedOf(text, hashseed, now)
    /\ pc' = "extracted"
    /\ UNCHANGED <<text, ret, secVars, envVars, upload, db, args, first, workVars>>

\* the candidate row is committed and the record returned
UploadSaved ==
    /\ pc = "extracted"
    /\ db' = Append(db, CandidateRow(parsed, text))
    /\ ret' = ResponseOf(parsed, text, Len(db'))
    /\ pc' = "done"
    /\ UNCHANGED <<text, secVars, envVars, parsed, upload, args, first, workVars>>

\* the commit fails: rollback, HTTP 500
UploadDbError ==
    /\ pc = "extracted"
    /\ ret' = [status |-> 500, detail |-> "Database error while saving candidate"]
    /\ pc' = "done"
    /\ UNCHANGED <<text, secVars, envVars, reqVars>>

UploadNext ==
    \/ UploadRejected
    \/ UploadDecoded
    \/ UploadTooShort
    \/ UploadExtracted
    \/ UploadSaved
    \/ UploadDbError

SpecUpload == UploadInit /\ [][UploadNext]_vars

\* ---- C14 ----
\* the extractors have been called in this request
ExtractorsRan == pc = "extracted" \/ (pc = "done" /\ ret.status # 400)

\* C14: the extractors run and a candidate row is persisted only after the
\* file type was accepted, decoding succeeded and the stripped text has at
\* least 50 characters; when decoding fails or the text is too short, no
\* extractor is invoked and nothing is persisted.
C14_ValidatedBeforeExtraction ==
    (ExtractorsRan \/ db # <<>>) =>
        /\ upload.content_type \in AllowedTypes
        /\ upload.content.kind = "document"
        /\ Len(strip(upload.content.text)) >= MinTextLen

\* What does hold: extraction and the row come after an accepted type and a
\* returned string of 50 or more stripped characters, and the row holds that
\* string, which is the document's text or the decoder's bracketed message.
C14_LengthCheckedBeforeExtraction ==
    (ExtractorsRan \/ db # <<>>) =>
        /\ upload.content_type \in AllowedTypes
        /\ Len(strip(text)) >= MinTextLen
        /\ \A k \in 1..Len(db) : db[k].raw_resume_text = text
        /\ \/ upload.content.kind = "document" /\ text = upload.content.text
           \/ upload.content.kind = "malformed"
              /\ text \in {"[PDF parsing error: " \o upload.content.error \o "]",
                           "[DOCX parsing error: " \o upload.content.error \o "]"}

\* A PDF upload that cannot be decoded: the message is 61 characters long, the
\* extractors run on it and the row is saved.
C14_DecodeFailurePersisted ==
    /\ pc = "done"
    /\ upload.content_type = PdfType
    /\ upload.content.kind = "malformed"
    /\ ret.status = 200
    /\ Len(db) = 1
    /\ db[1].raw_resume_text = "[PDF parsing error: No /Root object! - Is this really a PDF?]"

(***************************************************************************)
(* The roadmap generator: skills ordered by their prerequisites            *)
(***************************************************************************)
\* SKILL_RESOURCES: prerequisites, estimated_weeks and the sum of the
\* resources' estimated_hours of each skill
SKILL_RESOURCES ==
    [python     |-> [prerequisites |-> <<>>, estimated_weeks |-> 4, hours |-> 60],
     fastapi    |-> [prerequisites |-> <<"python">>, estimated_weeks |-> 2, hours |-> 10],
     postgresql |-> [prerequisites |-> <<"sql">>, estimated_weeks |-> 3, hours |-> 15],
     sql        |-> [prerequisites |-> <<>>, estimated_weeks |-> 2, hours |-> 8],
     docker     |-> [prerequisites |-> <<>>, estimated_weeks |-> 2, hours |-> 5],
     kubernetes |-> [prerequisites |-> <<"docker">>, estimated_weeks |-> 4, hours |-> 10],
     aws        |-> [prerequisites |-> <<>>, estimated_weeks |-> 6, hours |-> 6],
     react      |-> [prerequisites |-> <<"javascript">>, estimated_weeks |-> 4, hours |-> 15],
     javascript |-> [prerequisites |-> <<>>, estimated_weeks |-> 4, hours |-> 30],
     typescript |-> [prerequisites |-> <<"javascript">>, estimated_weeks |-> 2, hours |-> 10],
     mongodb    |-> [prerequisites |-> <<>>, estimated_weeks |-> 2, hours |-> 20],
     redis      |-> [prerequisites |-> <<>>, estimated_weeks |-> 1, hours |-> 8],
     spark      |-> [prerequisites |-> <<"python", "sql">>, estimated_weeks |-> 4, hours |-> 20],
     airflow    |-> [prerequisites |-> <<"python">>, estimated_weeks |-> 2, hours |-> 10]]

\* self.SKILL_RESOURCES.get(skill, {}) with the defaults of the .get calls on it
SkillData(skill) ==
    IF skill \in DOMAIN SKILL_RESOURCES THEN SKILL_RESOURCES[skill]
    ELSE [prerequisites |-> <<>>, estimated_weeks |-> 2, hours |-> 10]

\* the lower-case skill names that occur, in the order a set of them is
\* iterated under hash seed 1
SkillNames == <<"python", "fastapi", "postgresql", "sql", "docker", "kubernetes", "aws",
                "react", "javascript", "typescript", "mongodb", "redis", "spark",
                "airflow", "graphql", "">>

\* list(S) / `for s in S` of a set of skill names in a process with hash seed h
SetList(S, h) == LET In(s) == s \in S IN SelectSeq(SetOrder(SkillNames, h), In)

\* dependencies[skill] without the prerequisites: every skill starts at once
DependenciesNone(skill, missing_lower) == {}

\* dependencies[skill]: the prerequisites that are missing too
Dependencies(skill, missing_lower) ==
    {p \in Range(SkillData(skill).prerequisites) : lower(p) \in missing_lower}

\* the while loop: one phase per round, the skills with no dependency left in
\* `remaining`; when there is none, all of `remaining` is the last phase
RECURSIVE SortPhases(_, _, _)
SortPhases(remaining, missing_lower, h) ==
    IF remaining = {} THEN <<>>
    ELSE LET Ready(s) == Dependencies(s, missing_lower) \cap remaining = {}
             Rest(phase) ==
                 IF phase = <<>> THEN <<SetList(remaining, h)>>
                 ELSE <<phase>> \o SortPhases(remaining \ Range(phase), missing_lower, h)
         IN  Rest(SelectSeq(SetList(remaining, h), Ready))

topological_sort_skills(missing_skills, h) ==
    LET Sorted(missing_lower) == SortPhases(missing_lower, missing_lower, h)
    IN  Sorted({lower(missing_skills[k]) : k \in 1..Len(missing_skills)})

MaxMissing == 3

\* skills as a job lists them
ListedSkills == {"Python", "python", "FastAPI", "SQL", "PostgreSQL", "Spark", "GraphQL",
                 "Kubernetes"}

TopoInit ==
    /\ args \in {[missing_skills |-> q] : q \in SeqsUpTo(ListedSkills, MaxMissing)}
    /\ hashseed \in HashSeeds
    /\ shared = {}
    /\ now = <<2026, 11, 5>>
    /\ pc = "call"
    /\ text = None
    /\ ret = None
    /\ parsed = None
    /\ upload = None
    /\ db = <<>>
    /\ first = <<>>
    /\ WorkIdle
    /\ SecIdle

TopoCall ==
    /\ pc = "call"
    /\ ret' = topological_sort_skills(args.missing_skills, hashseed)
    /\ pc' = "done"
    /\ UNCHANGED <<text, secVars, envVars, reqVars>>

SpecTopo == TopoInit /\ [][TopoCall]_vars

\* ---- C15 ----
\* the phases (1-based) that hold the skill s
PhasesOf(s) == {n \in 1..Len(ret) : \E k \in 1..Len(ret[n]) : ret[n][k] = s}

\* C15: every distinct lower-cased missing skill is in exactly one returned
\* phase (once), no phase is empty, the phases hold nothing else, and every
\* prerequisite of a skill that is itself missing is in a strictly earlier
\* phase.
C15_PhasesRespectPrerequisites ==
    pc = "done" =>
        LET missing == {lower(args.missing_skills[k]) : k \in 1..Len(args.missing_skills)}
        IN  /\ \A s \in missing : Cardinality(PhasesOf(s)) = 1
            /\ \A n \in 1..Len(ret) :
                   /\ ret[n] # <<>>
                   /\ \A j, k \in 1..Len(ret[n]) : ret[n][j] = ret[n][k] => j = k
                   /\ Range(ret[n]) \subseteq missing
            /\ \A s \in missing \cap DOMAIN SKILL_RESOURCES :
                   \A p \in Range(SKILL_RESOURCES[s].prerequisites) \cap missing :
                       \A n \in PhasesOf(s), e \in PhasesOf(p) : e < n

\* Spark with both of its prerequisites missing, one of them written twice in
\* different case: python and sql first, spark second.
C15_Witness ==
    /\ pc = "done"
    /\ args.missing_skills = <<"Spark", "SQL", "python">>
    /\ Len(ret) = 2
    /\ Range(ret[1]) = {"python", "sql"}
    /\ ret[2] = <<"spark">>

(***************************************************************************)
(* POST /api/roadmap/generate                                              *)
(***************************************************************************)
PHASE_TITLES == <<"Foundation", "Core Skills", "Advanced Topics", "Specialization", "Mastery">>

PHASE_MILESTONES == <<
    "You'll have the fundamentals to start building",
    "You can contribute to real projects",
    "You'll be comfortable with complex implementations",
    "You'll be an expert in key areas",
    "You'll be ready for senior-level responsibilities">>

\* skill_name.lower() in [s.lower() for s in skills]
InIgnoringCase(skill_name, skills) ==
    \E k \in 1..Len(skills) : lower(skills[k]) = lower(skill_name)

\* get_skill_node; category, difficulty and the resources, which are copied
\* from the table, are represented by the sum of the resources' hours
get_skill_node(skill_name, job_required_skills) ==
    LET Node(skill_data) ==
            [name |-> title(skill_name),
             estimated_weeks |-> skill_data.estimated_weeks,
             prerequisites |-> [k \in 1..Len(skill_data.prerequisites) |->
                                   title(skill_data.prerequisites[k])],
             hours |-> skill_data.hours,
             why_needed |-> IF InIgnoringCase(skill_name, job_required_skills)
                            THEN "Required skill for this role" ELSE "Nice-to-have skill"]
    IN  Node(SkillData(lower(skill_name)))

RECURSIVE SumWeeks(_)
SumWeeks(skills) ==
    IF skills = <<>> THEN 0 ELSE Head(skills).estimated_weeks + SumWeeks(Tail(skills))

RECURSIVE SumHours(_)
SumHours(skills) == IF skills = <<>> THEN 0 ELSE Head(skills).hours + SumHours(Tail(skills))

\* pace_multipliers.get(pace, 1.0)
PaceMultiplier(pace) ==
    CASE pace = "intensive" -> FDivInt(6, 10)
      [] pace = "relaxed" -> FDivInt(3, 2)
      [] OTHER -> FOfInt(1)

\* calculate_phase_weeks
calculate_phase_weeks(skills, pace) ==
    FRoundTenths(FMul(FMul(FOfInt(SumWeeks(skills)), FDivInt(7, 10)), PaceMultiplier(pace)))

\* build_phases: <<phases, total_weeks, total_hours>>
RECURSIVE BuildPhases(_, _, _, _, _)
BuildPhases(skill_phases, n, required_skills, pace, acc) ==
    IF n > Len(skill_phases) THEN acc
    ELSE LET Phase(skill_nodes) ==
                 LET Built(phase_weeks) ==
                         <<Append(acc[1],
                                  [phase_number |-> n,
                                   title |-> PHASE_TITLES[Min(n, Len(PHASE_TITLES))],
                                   skills |-> skill_nodes,
                                   total_weeks |-> phase_weeks,
                                   milestone |-> PHASE_MILESTONES[Min(n, Len(PHASE_MILESTONES))]]),
                           FAdd(acc[2], phase_weeks),
                           acc[3] + SumHours(skill_nodes)>>
                 IN  Built(calculate_phase_weeks(skill_nodes, pace))
         IN  BuildPhases(skill_phases, n + 1, required_skills, pace,
                         Phase([k \in 1..Len(skill_phases[n]) |->
                                   get_skill_node(skill_phases[n][k], required_skills)]))

build_phases(skill_phases, required_skills, pace) ==
    BuildPhases(skill_phases, 1, required_skills, pace, <<<<>>, FZero, 0>>)

\* get_motivation_message, without the leading emoji
get_motivation_message(missing_count, weeks) ==
    IF missing_count <= 2 THEN "You're almost there! Just a few skills to learn."
    ELSE IF missing_count <= 5
    THEN "A solid learning journey ahead! You'll be job-ready soon."
    ELSE IF FLeqInt(weeks, 8)
    THEN "This is achievable! Many developers have bridged similar gaps."
    ELSE "A significant but rewarding journey. Celebrate each milestone!"

\* missing_skills, comparing the names as written
MissingSkillsAsWritten(all_job_skills, current_skills) ==
    LET Missing(s) == \A k \in 1..Len(current_skills) : current_skills[k] # s
    IN  SelectSeq(all_job_skills, Missing)

\* missing_skills: the job's skills that are not among the current ones,
\* ignoring case
MissingSkills(all_job_skills, current_skills) ==
    LET Missing(s) == ~InIgnoringCase(s, current_skills)
    IN  SelectSeq(all_job_skills, Missing)

\* the jobs of data/jobs.json
Jobs == <<
    [id |-> 1, title |-> "Senior Python Developer", company |-> "TechCorp",
     required_skills |-> <<"Python", "FastAPI", "PostgreSQL", "Docker", "AWS">>,
     nice_to_have_skills |-> <<"Kubernetes", "Redis", "GraphQL">>],
    [id |-> 2, title |-> "Data Engineer", company |-> "DataWorks",
     required_skills |-> <<"Python", "SQL">>,
     nice_to_have_skills |-> <<"Spark", "python">>],
    [id |-> 3, title |-> "Intern", company |-> "Startup",
     required_skills |-> <<>>,
     nice_to_have_skills |-> <<>>]>>

\* jobs.get(request.target_job_id): the jobs with that id, the last one first
JobsWithId(jobs, id) == LET Is(j) == j.id = id IN Reverse(SelectSeq(jobs, Is))

MaxCurrent == 2

CurrentSkillNames == {"Python", "python", "SQL", "sql", "Spark", "Rust"}

RoadmapRequests ==
    {[current_skills |-> c, target_job_id |-> id, learning_pace |-> pace] :
        c \in SeqsUpTo(CurrentSkillNames, MaxCurrent)
              \cup {<<"PYTHON", "Sql", "spark">>,
                    <<"python", "fastapi", "postgresql", "docker", "aws", "kubernetes",
                      "redis", "graphql">>},
        id \in {1, 2, 3, 999999},
        pace \in {"intensive", "moderate", "relaxed", "intense"}}

RoadmapInit ==
    /\ args \in {[request |-> r, jobs_file |-> f] :
                    r \in RoadmapRequests, f \in {"present", "absent"}}
    /\ args.jobs_file = "absent" =>
           args.request = [current_skills |-> <<>>, target_job_id |-> 1,
                           learning_pace |-> "moderate"]
    /\ hashseed \in HashSeeds
    /\ shared = {}
    /\ now = <<2026, 11, 5>>
    /\ pc = "request"
    /\ text = None
    /\ ret = None
    /\ parsed = None
    /\ upload = None
    /\ db = <<>>
    /\ first = <<>>
    /\ WorkIdle
    /\ SecIdle

\* data/jobs.json cannot be opened: HTTP 404
RoadmapNoData ==
    /\ pc = "request"
    /\ args.jobs_file = "absent"
    /\ ret' = [status |-> 404, detail |-> "Jobs data not found"]
    /\ pc' = "done"
    /\ UNCHANGED <<text, secVars, envVars, reqVars>>

\* no job has the id: HTTP 404
RoadmapNoJob ==
    /\ pc = "request"
    /\ args.jobs_file = "present"
    /\ JobsWithId(Jobs, args.request.target_job_id) = <<>>
    /\ ret' = [status |-> 404, detail |-> "Job not found"]
    /\ pc' = "done"
    /\ UNCHANGED <<text, secVars, envVars, reqVars>>

\* the response for the job, the request and the missing skills
RoadmapResponse(job, request, missing_skills, h) ==
    IF missing_skills = <<>>
    THEN [status |-> 200,
          target_job |-> job.title,
          target_company |-> job.company,
          current_match_score |-> FOfInt(100),
          projected_match_score |-> FOfInt(100),
          missing_skills_count |-> 0,
          phases |-> <<>>,
          total_estimated_weeks |-> FOfInt(0),
          total_estimated_hours |-> 0,
          summary |-> <<"Congratulations! You already have all the skills for this role.">>,
          motivation_message |-> "You're ready to apply! Your skills are a perfect match."]
    ELSE LET Response(built) ==
                 [status |-> 200,
                  target_job |-> job.title,
                  target_company |-> job.company,
                  current_match_score |->
                      FRoundTenths(FMul(FDivInt(Len(request.current_skills),
                                                Len(job.required_skills)
                                                + Len(job.nice_to_have_skills)),
                                        FOfInt(100))),
                  projected_match_score |-> FOfInt(100),
                  missing_skills_count |-> Len(missing_skills),
                  phases |-> built[1],
                  total_estimated_weeks |-> built[2],
                  total_estimated_hours |-> built[3],
                  \* the numbers and names the sentence is written from
                  summary |-> <<job.title, job.company, Len(missing_skills), Len(built[1]),
                                IF FLeqInt(built[2], 0) \/ FTrunc(built[2]) = 0
                                THEN <<FTrunc(FMul(built[2], FOfInt(4))), "days">>
                                ELSE <<FTrunc(built[2]), "weeks">>,
                                request.learning_pace>>,
                  motivation_message |->
                      get_motivation_message(Len(missing_skills), built[2])]
         IN  Response(build_phases(topological_sort_skills(missing_skills, h),
                                   job.required_skills, request.learning_pace))

\* the job is found: the roadmap, or the perfect-match answer
RoadmapGenerated ==
    /\ pc = "request"
    /\ args.jobs_file = "present"
    /\ JobsWithId(Jobs, args.request.target_job_id) # <<>>
    /\ LET Answer(job) ==
               ret' = RoadmapResponse(job, args.request,
                                      MissingSkills(job.required_skills \o job.nice_to_have_skills,
                                                    args.request.current_skills),
                                      hashseed)
       IN  Answer(JobsWithId(Jobs, args.request.target_job_id)[1])
    /\ pc' = "done"
    /\ UNCHANGED <<text, secVars, envVars, reqVars>>

RoadmapNext ==
    \/ RoadmapNoData
    \/ RoadmapNoJob
    \/ RoadmapGenerated

SpecRoadmap == RoadmapInit /\ [][RoadmapNext]_vars

\* ---- C16 ----
\* C16: missing_skills_count is the number of the job's required plus
\* nice-to-have skills that are not in current_skills ignoring case; phases is
\* empty exactly when that count is 0, and then current_match_score is 100.0
\* and total_estimated_weeks is 0.
C16_MissingCountAndPerfectMatch ==
    (pc = "done" /\ ret.status = 200) =>
        \A n \in 1..Len(Jobs) :
            Jobs[n].id = args.request.target_job_id =>
                LET listed == Jobs[n].required_skills \o Jobs[n].nice_to_have_skills
                    held == {lower(args.request.current_skills[k]) :
                                k \in 1..Len(args.request.current_skills)}
                    count == Cardinality({k \in 1..Len(listed) : lower(listed[k]) \notin held})
                IN  /\ ret.missing_skills_count = count
                    /\ (ret.phases = <<>>) <=> (count = 0)
                    /\ count = 0 =>
                           \* 100.0 is 1600 * 2^42 * 2^-46, 0.0 has no mantissa
                           /\ ret.current_match_score = [m |-> <<0, 0, 0, 1600>>, e |-> -46]
                           /\ ret.total_estimated_weeks = [m |-> <<>>, e |-> 0]

\* Every skill of job 2 is held, in another case than the job writes it.
C16_Witness ==
    /\ pc = "done"
    /\ args.request.target_job_id = 2
    /\ args.request.current_skills = <<"PYTHON", "Sql", "spark">>
    /\ ret.status = 200
    /\ ret.missing_skills_count = 0
    /\ ret.phases = <<>>

(***************************************************************************)
(* sectionize on headers that name more than one zone                      *)
(***************************************************************************)
MaxHeaderLines == 3

HeaderLineSet == {"", "John Smith", "Python", "Academic Projects",
                  "Technical Skills and Projects", "Career Objective",
                  "Training & Awards", "My education and work experience in short"}

HeaderInit ==
    /\ text \in {join(NL, ls) : ls \in SeqsUpTo(HeaderLineSet, MaxHeaderLines)}
    /\ pc = "call"
    /\ lines = <<>>
    /\ i = 0
    /\ current_section = None
    /\ sections = <<>>
    /\ ret = None
    /\ EnvIdle
    /\ ReqIdle

SpecHeaders == HeaderInit /\ [][SecNext]_vars

\* ---- C17 ----
\* the zones in the order the claim gives for the table
ZoneOrder == <<"education", "experience", "skills", "projects", "contact", "summary",
               "certifications", "achievements">>

\* the positions in ZoneOrder of the zones one of whose keywords is in the line
ZonesNamed(line) ==
    {n \in 1..Len(ZoneOrder) :
        \E k \in 1..Len(SECTION_KEYWORDS) :
            /\ SECTION_KEYWORDS[k][1] = ZoneOrder[n]
            /\ \E kw \in SECTION_KEYWORDS[k][2] : Contains(strip(lower(line)), kw)}

\* C17: in every iteration of sectionize on a header candidate (a non-blank
\* line of fewer than 5 words): when the line contains keywords of one or more
\* zones, the current zone becomes the one that comes first in the table
\* order and the line is added to no zone; when it contains no keyword, it is
\* appended to the current zone as content.
C17_FirstZoneInTableOrderWins ==
    [][(pc = "loop" /\ i < Len(lines) /\ strip(lines[i + 1]) # ""
        /\ Len(splitWs(strip(lines[i + 1]))) < 5) =>
           LET line == lines[i + 1]
               named == ZonesNamed(line)
           IN  IF named # {}
               THEN /\ \E n \in named :
                           /\ \A j \in named : n <= j
                           /\ current_section' = ZoneOrder[n]
                    /\ current_section' \in DOMAIN sections'
                    /\ \A z \in DOMAIN sections : sections'[z] = sections[z]
                    /\ \A z \in DOMAIN sections' \ DOMAIN sections : sections'[z] = ""
               ELSE /\ current_section' = current_section
                    /\ DOMAIN sections' = DOMAIN sections
                    /\ \A z \in DOMAIN sections :
                           sections'[z] = IF z = current_section
                                          THEN sections[z] \o line \o NL
                                          ELSE sections[z]]_vars

\* 'Technical Skills and Projects' names the skills and the projects zone: the
\* lines after it are skills, there is no projects zone and the header is kept
\* nowhere.
C17_Witness ==
    /\ pc = "done"
    /\ text = "John Smith\nTechnical Skills and Projects\nPython"
    /\ DOMAIN ret = {"header", "unknown", "skills"}
    /\ ret["skills"] = "Python\n"
    /\ ret["header"] = "John Smith\n"
    /\ ret["unknown"] = ""

\* ---- C18 ----
\* C18: an institute line is paired with at most one degree line: no more
\* entries carry an institute text than there are institute lines with that
\* text, and with a single institute line at most one entry is paired and
\* every other degree is returned alone (empty institute, confidence 60), even
\* when that line is the only institute within 3 lines of it.
C18_InstituteConsumedOnce ==
    pc = "done" =>
        LET ls == EduLines(text)
            I == KeywordLines(ls, INSTITUTE_KEYWORDS)
            paired == {k \in 1..Len(ret) : ret[k].institute # ""}
        IN  /\ \A k \in paired :
                   Cardinality({j \in paired : ret[j].institute = ret[k].institute})
                       <= Cardinality({x \in I : strip(ls[x + 1]) = ret[k].institute})
            /\ Cardinality(paired) <= Cardinality(I)
            /\ \A k \in 1..Len(ret) :
                   (k \in paired) <=> (ret[k].confidence = 85)
            /\ \A k \in (1..Len(ret)) \ paired : ret[k].confidence = 60

\* Two degree lines around the only institute line: the first takes it, the
\* second, one line away from it, is returned alone.
C18_Witness ==
    /\ pc = "done"
    /\ text = "B.Tech in CS\nIIT Delhi\nB.Tech in CS"
    /\ Len(ret) = 2
    /\ ret[1].institute = "IIT Delhi"
    /\ ret[2].institute = ""
    /\ ret[2].confidence = 60

\* ---- C19 ----
\* C19: for an entry paired with an institute, CGPA/percentage and year are
\* extracted only from the lines from the degree line to the institute line
\* inclusive (in either order): they are what the patterns find in those lines.
C19_ClusterIsDegreeToInstitute ==
    pc = "done" =>
        LET ls == EduLines(text)
            D == KeywordLines(ls, DEGREE_KEYWORDS)
            pr == EduPairing(D, KeywordLines(ls, INSTITUTE_KEYWORDS), {})
        IN  \A k \in 1..Len(ret) :
                pr[k] >= 0 =>
                    LET Between(a, b) == join(NL, SubSeq(ls, Min(a, b) + 1, Max(a, b) + 1))
                        Found(cluster) == /\ ret[k].year = ClusterYear(cluster)
                                          /\ ret[k].cgpa = ClusterCgpa(cluster)
                    IN  Found(Between(Nth(D, k), pr[k]))

\* The degree at line 0 and the institute at line 1 are paired, and the entry
\* has the year of line 2, which belongs to the next degree.
C19_FollowingLineRead ==
    /\ pc = "done"
    /\ text = "B.Tech in CS\nIIT Delhi\nMBA, XLRI College 2020"
    /\ ret[1].institute = "IIT Delhi"
    /\ ret[1].year = "2020"

\* ---- C20 ----
\* the whole months of the ranges of the experience text whose two sides
\* parse: all of them, and the sum of the positive ones
RangeSpans(t, today) ==
    LET Spans(rs) == [k \in DOMAIN rs |-> WholeMonths(rs[k][1], rs[k][2])]
    IN  Spans(ParsedRanges(t, today))

PositiveTotal(spans) ==
    LET pos == {k \in DOMAIN spans : spans[k] > 0}
    IN  SumOver([k \in pos |-> spans[k]], pos)

\* C20 (as stated): the explicit 'N years experience' fallback (confidence 75)
\* is used only when no date range of the experience text parses; whenever at
\* least one range parses the result is the date math with confidence 90; 0
\* with confidence 0 is returned only when neither is found.
C20_DateMathWheneverARangeParses ==
    pc = "done" =>
        LET Stated(spans) ==
                /\ DOMAIN spans # {} => ret.confidence = 90
                /\ ret.confidence \in {75, 0} => DOMAIN spans = {}
        IN  Stated(RangeSpans(text, now))

\* C20 (amended): the date math (confidence 90) is the result exactly when the
\* parsed ranges with a positive whole-month difference have a positive total;
\* otherwise, also when ranges parse but none spans a positive number of
\* months, the explicit statement found in the whole text is returned with
\* confidence 75, and 0 with confidence 0 when there is none.
C20_DateMathWhenPositiveTotal ==
    pc = "done" =>
        LET Amended(total, stated) ==
                /\ ret.confidence \in {90, 75, 0}
                /\ (ret.confidence = 90) <=> (total > 0)
                /\ total > 0 => IsRoundedYears(ret.value, total)
                /\ (total = 0 /\ stated) => ret = ExtractedField(50, 75)
                /\ (total = 0 /\ ~stated) => ret = ExtractedField(0, 0)
        IN  Amended(PositiveTotal(RangeSpans(text, now)),
                    Contains(lower(text), "5 years of experience"))

\* An explicit statement and, in the experience text, a range that parses but
\* ends before it starts: the statement is returned with confidence 75.
C20_Witness ==
    /\ pc = "done"
    /\ text = "5 years of experience\nDec 2021 - Jan 2020"
    /\ DOMAIN RangeSpans(text, now) = {1}
    /\ RangeSpans(text, now)[1] < 0
    /\ ret = ExtractedField(50, 75)

\* ---- C21 ----
\* C21: a date range that matches DATE_RANGE_REGEX but fails to parse (a
\* numeric month outside 1..12) is handled inside extract_experience_years:
\* the extractor still returns a field, the range adds nothing to the month
\* total, and the ranges before and after it are parsed and summed.
C21_UnparsedRangeSkipped ==
    pc = "done" =>
        LET Stated(matched, spans) ==
                DOMAIN spans # 1..matched =>
                    /\ ret.confidence \in {90, 75, 0}
                    /\ (ret.confidence = 90) <=> (PositiveTotal(spans) > 0)
                    /\ PositiveTotal(spans) > 0
                           => IsRoundedYears(ret.value, PositiveTotal(spans))
        IN  Stated(Len(DateRanges(ExpText(text))), RangeSpans(text, now))

\* A range whose end month is 13, followed by a range of 23 months: the
\* result is 1.9 years from the second range alone.
C21_Witness ==
    /\ pc = "done"
    /\ text = "03/2021 - 13/2021\nJan 2020 - Dec 2021"
    /\ Len(DateRanges(ExpText(text))) = 2
    /\ DOMAIN RangeSpans(text, now) = {2}
    /\ ret = ExtractedField(19, 90)

(***************************************************************************)
(* extract_work_experience, one line of the experience zone at a time      *)
(***************************************************************************)
MaxWorkLines == 3

WorkLineSet == {"Software Engineer at Acme", "Senior Developer", "Jan 2020 - Dec 2021",
                "Acme Corp", "- Built billing for all the enterprise customers",
                "Was in Pune from Mar 2021 - Apr 2021."}

WorkTexts ==
    {"Experience\n" \o join(NL, ls) : ls \in SeqsUpTo(WorkLineSet, MaxWorkLines) \ {<<>>}}
    \cup {"Software Engineer at Acme\nAcme Corp", "Experience"}

WorkInit ==
    /\ text \in WorkTexts
    /\ pc = "call"
    /\ ret = None
    /\ SecIdle
    /\ EnvIdle
    /\ ReqIdle

\* exp_text = sections.get('experience', ''); return [] when it is empty;
\* experiences = []; lines = exp_text.split('\n'); current_exp = None
WorkEnter ==
    /\ pc = "call"
    /\ LET Section(exp_text) ==
               IF exp_text = ""
               THEN /\ ret' = <<>>
                    /\ pc' = "done"
                    /\ UNCHANGED lines
               ELSE /\ lines' = splitOn(exp_text, NL)
                    /\ pc' = "scan"
                    /\ UNCHANGED ret
       IN  Section(SectionGet(sectionize(text), "experience", ""))
    /\ i' = 0
    /\ experiences' = <<>>
    /\ current_exp' = <<>>
    /\ UNCHANGED <<text, current_section, sections, envVars, parsed, upload, db, args, first>>

\* one iteration of `for line in lines`
WorkLine ==
    /\ pc = "scan"
    /\ i < Len(lines)
    /\ LET Stepped(st) ==
               /\ experiences' = st.experiences
               /\ current_exp' = st.current_exp
       IN  Stepped(WorkStep([experiences |-> experiences, current_exp |-> current_exp],
                            lines[i + 1]))
    /\ i' = i + 1
    /\ UNCHANGED <<pc, text, lines, current_section, sections, ret, envVars,
                   parsed, upload, db, args, first>>

\* the end of the zone without its flush: the open entry is not returned
WorkReturnNoFlush ==
    /\ pc = "scan"
    /\ i = Len(lines)
    /\ ret' = experiences
    /\ pc' = "done"
    /\ UNCHANGED <<text, secVars, envVars, parsed, upload, db, args, first, workVars>>

\* if current_exp: experiences.append(current_exp); return experiences
WorkReturn ==
    /\ pc = "scan"
    /\ i = Len(lines)
    /\ experiences' = experiences \o current_exp
    /\ ret' = experiences'
    /\ pc' = "done"
    /\ UNCHANGED <<text, secVars, envVars, parsed, upload, db, args, first, current_exp>>

WorkNext == WorkEnter \/ WorkLine \/ WorkReturn

SpecWork == WorkInit /\ [][WorkNext]_vars

\* ---- C22 ----
\* what the scan takes a stripped line for: a title line, else a line holding
\* a date range, else any other line
LineKind(line) ==
    IF is_job_title_line(line) THEN "title"
    ELSE IF DateRangeSearch(line) # None THEN "date"
    ELSE IF line = "" THEN "blank"
    ELSE "other"

RECURSIVE LineKinds(_)
LineKinds(ls) ==
    IF ls = <<>> THEN <<>> ELSE <<LineKind(strip(Head(ls)))>> \o LineKinds(Tail(ls))

\* the lines scanned so far, by kind
ScannedKinds == LineKinds(SubSeq(lines, 1, i))

\* the lines that open an entry: every title line, and the first date line
\* when no title line comes before it
OpeningLines(kinds) ==
    LET Placeholder(titles, dates) ==
            IF dates # {} /\ \A j \in titles : FirstIndex(dates) < j
            THEN {FirstIndex(dates)} ELSE {}
    IN  {j \in DOMAIN kinds : kinds[j] = "title"}
        \cup Placeholder({j \in DOMAIN kinds : kinds[j] = "title"},
                         {j \in DOMAIN kinds : kinds[j] = "date"})

\* the entries opened so far, appended or still open
EntriesSoFar == IF pc = "done" THEN ret ELSE experiences \o current_exp

\* the entries are the opening lines in order (titles), all but the open one
\* appended
EntriesFollowOpeningLines(kinds, open) ==
    /\ Len(EntriesSoFar) = Cardinality(open)
    /\ pc = "scan" => Len(current_exp) = (IF open = {} THEN 0 ELSE 1)
    /\ pc = "scan" => Len(experiences) = Len(EntriesSoFar) - Len(current_exp)
    /\ \A k \in 1..Len(EntriesSoFar) :
           LET Opened(j) ==
                   IF kinds[j] = "title"
                   THEN EntriesSoFar[k].title = split_title_company(strip(lines[j]))[1]
                   ELSE EntriesSoFar[k].title = ""
           IN  Opened(Nth(open, k))

SameEntryOpen ==
    /\ pc = "scan"
    /\ current_exp # <<>>
    /\ current_exp' # <<>>
    /\ experiences' = experiences

\* C23: a short line (at most 6 words) is taken as the company only when it
\* immediately follows the title line of an entry that has no company yet; a
\* short line that comes after description lines of the entry is recorded as a
\* description line; a company once set is never replaced.
C23_CompanyOnlyRightAfterTitle ==
    [][SameEntryOpen =>
          /\ current_exp'[1].company # current_exp[1].company
                 => /\ current_exp[1].company = ""
                    /\ Len(splitWs(strip(lines[i + 1]))) <= 6
                    /\ i >= 1
                    /\ LineKind(strip(lines[i])) = "title"
          /\ (LineKind(strip(lines[i + 1])) = "other" /\ current_exp[1].description # <<>>)
                 => Len(current_exp'[1].description) = Len(current_exp[1].description) + 1]_vars

\* A title line without a company, a description line, then a short line: the
\* short line has become the company and the description holds one line.
C23_CompanyAfterDescription ==
    /\ pc = "done"
    /\ text = "Experience\nSenior Developer\n- Built billing for all the enterprise customers\nAcme Corp"
    /\ ret = <<[title |-> "Senior Developer", company |-> "Acme Corp", duration |-> "",
                description |-> <<"Built billing for all the enterprise customers">>]>>

\* ---- C24 ----
\* the stripped line is a date range and nothing else
IsPureDateRange(line) == DateRangeSearch(line) = line

\* C24: while an entry is open, every non-empty line of the zone that is
\* neither a title line nor a pure date-range line is kept on the current
\* entry, as the next description line with its bullet marker stripped or as
\* the company; no such line is dropped, a sentence that merely contains a
\* date range included.
C24_OtherLinesKept ==
    [][(/\ pc = "scan"
        /\ i < Len(lines)
        /\ current_exp # <<>>
        /\ strip(lines[i + 1]) # ""
        /\ ~is_job_title_line(strip(lines[i + 1]))
        /\ ~IsPureDateRange(strip(lines[i + 1])))
       => LET Kept(line) ==
                  \/ current_exp'[1].description =
                         Append(current_exp[1].description, strip(lstripSet(line, BulletSet)))
                  \/ current_exp[1].company = "" /\ current_exp'[1].company = line
          IN  current_exp' # <<>> /\ Kept(strip(lines[i + 1]))]_vars

\* An entry with its duration set, then a sentence that contains a date range:
\* the sentence is on the entry neither as a description line nor as the
\* company.
C24_SentenceWithDateDropped ==
    /\ pc = "done"
    /\ text = "Experience\nSenior Developer\nJan 2020 - Dec 2021\nWas in Pune from Mar 2021 - Apr 2021."
    /\ ~IsPureDateRange("Was in Pune from Mar 2021 - Apr 2021.")
    /\ ret = <<[title |-> "Senior Developer", company |-> "",
                duration |-> "Jan 2020 - Dec 2021", description |-> <<>>]>>

(***************************************************************************)
(* extract_projects on title lines that carry a tech stack                 *)
(***************************************************************************)
MaxTechLines == 3

TechLineSet == {"INVENTORY SYSTEM (REACT, )", "Chat App using Flask (Redis, Docker)",
                "Portfolio Website Tech Stack: React", "tech stack: react, Node",
                "built the cart with React and Docker.",
                "Library System using Java and SQL"}

TechTexts ==
    {"Projects\n" \o join(NL, ls) : ls \in SeqsUpTo(TechLineSet, MaxTechLines) \ {<<>>}}

ProjTechInit ==
    /\ text \in TechTexts
    /\ hashseed \in HashSeeds
    /\ shared = {}
    /\ now = <<2026, 11, 5>>
    /\ pc = "call"
    /\ ret = None
    /\ SecIdle
    /\ ReqIdle

SpecProjectTech == ProjTechInit /\ [][ProjCall]_vars

\* the lines of the projects zone the loop looks at: stripped and not empty
ProjectLines(t) == NonEmpty(StripAll(splitOn(SectionGet(sectionize(t), "projects", ""), NL)))

RECURSIVE LineAnalyses(_, _)
LineAnalyses(ls, h) ==
    IF ls = <<>> THEN <<>>
    ELSE <<analyze_project_line(Head(ls), h)>> \o LineAnalyses(Tail(ls), h)

\* the lines after line j up to the next accepted line or the end of the zone
LinesOfProject(accepted, j, n) ==
    {d \in (j + 1)..n : \A a \in accepted : a <= j \/ a > d}

\* ---- C25 ----
\* C25: a line is accepted as a project title exactly when its score brought
\* into 0..100 is at least 60, and that score is the entry's confidence: the
\* returned projects are the lines with such a score, in order, each with a
\* confidence in 60..100, and a description made of lines that follow its
\* title line only, so that the lines before the first accepted title belong
\* to no project.
C25_TitleIffClampedScoreAtLeast60 ==
    pc = "done" =>
        LET Stated(ls, scores, accepted) ==
                /\ Len(ret) = Cardinality(accepted)
                /\ \A k \in 1..Len(ret) :
                       /\ ret[k].confidence = scores[Nth(accepted, k)].confidence
                       /\ ret[k].confidence \in 60..100
                       /\ ret[k].title = scores[Nth(accepted, k)].title
                       /\ \A d \in 1..Len(ret[k].description) :
                              \E j \in LinesOfProject(accepted, Nth(accepted, k), Len(ls)) :
                                  ret[k].description[d] = strip(lstripSet(ls[j], BulletSet))
            Scored(ls, scores) ==
                Stated(ls, scores, {j \in DOMAIN scores : scores[j].confidence >= 60})
            Lines(ls) == Scored(ls, LineAnalyses(ls, hashseed))
        IN  Lines(ProjectLines(text))

\* A description line before the first title, then an upper-case title with a
\* noun signal and a tech list (50 + 25 + 20 + 10 + 15 = 120): one project
\* with confidence 100 and no description.
C25_Witness ==
    /\ pc = "done"
    /\ text = "Projects\nbuilt the cart with React and Docker.\nINVENTORY SYSTEM (REACT, )"
    /\ ret = <<[title |-> "INVENTORY SYSTEM", tech_stack |-> <<"React">>,
                description |-> <<>>, confidence |-> 100]>>

\* ---- C26 ----
\* the trailing parenthetical list of a line, when it looks like a tech stack:
\* <<title, tech>>, or <<>>
ParenExtraction(line) ==
    LET Tech(paren_match, potential_tech) ==
            IF looks_like_tech_stack(potential_tech)
            THEN <<strip(paren_match[1]), potential_tech>> ELSE <<>>
        Match(paren_match) ==
            IF paren_match = <<>> THEN <<>>
            ELSE Tech(paren_match, StripAll(SplitSet(paren_match[2], {",", "|", "/"})))
    IN  Match(ParenMatch(line))

HasConnector(line) ==
    \E k \in DOMAIN TECH_STACK_CONNECTORS :
        ConnectorPos(strip(lower(line)), TECH_STACK_CONNECTORS[k]) > 0

\* the first of the three extractions that succeeds on the line decides a's
\* title and tech stack
FirstExtractionWins(line, a, paren, label) ==
    IF paren # <<>> THEN a.title = paren[1] /\ a.tech = paren[2]
    ELSE IF HasConnector(line) THEN TRUE
    ELSE IF label # <<>> THEN a.tech = label
    ELSE a.title = line /\ a.tech = <<>>

\* C26: on an accepted project title line the three tech-stack extractions are
\* tried in the order trailing parenthetical list, connector phrase, explicit
\* label, and the first that succeeds determines the extracted title and tech
\* stack: with a tech-like parenthetical and a connector the parenthetical
\* result is kept, and a label on the title line is used when the other two
\* fail.  The project opened by the line has that title, and its tech stack
\* starts with that list, deduplicated.
C26_FirstExtractionWins ==
    pc = "done" =>
        LET Stated(ls, scores, accepted) ==
                \A k \in 1..Len(ret) :
                    LET Line(line, a) ==
                            /\ FirstExtractionWins(line, a, ParenExtraction(line),
                                                   extract_tech_from_label(line, hashseed))
                            /\ ret[k].title = a.title
                            /\ Len(ret[k].tech_stack) >= Len(UniqueTech(a.tech, {}))
                            /\ SubSeq(ret[k].tech_stack, 1, Len(UniqueTech(a.tech, {})))
                                   = UniqueTech(a.tech, {})
                    IN  Line(ls[Nth(accepted, k)], scores[Nth(accepted, k)])
            Scored(ls, scores) ==
                Stated(ls, scores, {j \in DOMAIN scores : scores[j].confidence >= 60})
            Lines(ls) == Scored(ls, LineAnalyses(ls, hashseed))
        IN  Lines(ProjectLines(text))

\* A title line with a tech-like trailing parenthetical and the connector
\* 'using': the project has the connector's title and the connector's split of
\* the rest of the line, not the parenthetical list.
C26_ConnectorOverridesParenthetical ==
    /\ pc = "done"
    /\ text = "Projects\nChat App using Flask (Redis, Docker)"
    /\ ParenExtraction("Chat App using Flask (Redis, Docker)")
           = <<"Chat App using Flask", <<"Redis", "Docker">>>>
    /\ ret = <<[title |-> "Chat App", tech_stack |-> <<"Flask (Redis", "Docker)">>,
                description |-> <<>>, confidence |-> 100]>>

\* ---- C27 ----
\* the positions of q whose entry is not empty and occurs at no earlier position
FirstOccurrences(q) == {a \in DOMAIN q : q[a] # "" /\ \A b \in 1..(a - 1) : q[b] # q[a]}

RECURSIVE Pick(_, _)
Pick(q, positions) ==
    IF positions = {} THEN <<>>
    ELSE <<q[FirstIndex(positions)]>> \o Pick(q, positions \ {FirstIndex(positions)})

LowerAll(q) == [a \in DOMAIN q |-> lower(strip(q[a]))]

\* the tech stack as collected for the project opened at line j, before it is
\* finalized: from the title line, the label lines and the description lines
\* up to the next accepted line
CollectedTech(ls, accepted, j, h) ==
    LET last == IF LinesOfProject(accepted, j, Len(ls)) = {} THEN j
                ELSE LastIndex(LinesOfProject(accepted, j, Len(ls)))
    IN  ProjectFold([projects |-> <<>>, current_project |-> <<>>],
                    SubSeq(ls, 1, last), h).current_project[1].tech_stack

\* C27: every project returned by extract_projects has a tech_stack with no
\* empty entry and no two entries equal ignoring case, whatever mix of
\* title-line, label-line and description-line detections fed it; the entries
\* are, ignoring case, the collected ones in the order of their first
\* occurrence.
C27_TechStackDeduplicated ==
    pc = "done" =>
        LET Stack(tech_stack, collected) ==
                /\ \A a \in DOMAIN tech_stack : tech_stack[a] # ""
                /\ \A a, b \in DOMAIN tech_stack :
                       a # b => lower(tech_stack[a]) # lower(tech_stack[b])
                /\ LowerAll(tech_stack) = Pick(collected, FirstOccurrences(collected))
            Stated(ls, accepted) ==
                /\ Len(ret) = Cardinality(accepted)
                /\ \A k \in 1..Len(ret) :
                       Stack(ret[k].tech_stack,
                             LowerAll(CollectedTech(ls, accepted, Nth(accepted, k), hashseed)))
            Scored(ls, scores) ==
                Stated(ls, {j \in DOMAIN scores : scores[j].confidence >= 60})
            Lines(ls) == Scored(ls, LineAnalyses(ls, hashseed))
        IN  Lines(ProjectLines(text))

\* A title with a parenthetical list that has an empty item, a label line and
\* a description line that name React again in other casings: React is listed
\* once, first, and no entry is empty.
C27_Witness ==
    /\ pc = "done"
    /\ hashseed = 1
    /\ text = "Projects\nINVENTORY SYSTEM (REACT, )\ntech stack: react, Node\nbuilt the cart with React and Docker."
    /\ Len(CollectedTech(ProjectLines(text), {1}, 1, 1)) = 6
    /\ ret[1].tech_stack = <<"React", "Node", "Docker">>

\* ---- C28 ----
\* the skill is among those the search of the skills zone finds
FoundInZone(skill, zone_skills) ==
    \E k \in 1..Len(zone_skills) : zone_skills[k].value = skill.value

\* C28: every skill returned by extract_skills has confidence 90 when it was
\* found in the skills zone and confidence 70 when it was found only by the
\* whole-document fallback, the short/ambiguous skills (c, r, go, vue, dart,
\* rust, swift, perl) included.
C28_Confidence90InZone70Fallback ==
    pc = "done" =>
        LET Stated(zone_skills) ==
                \A k \in 1..Len(ret) :
                    ret[k].confidence = (IF FoundInZone(ret[k], zone_skills) THEN 90 ELSE 70)
            Zone(skills_zone) ==
                Stated(IF skills_zone = "" THEN <<>>
                       ELSE extract_skills_from_text(skills_zone, TRUE, hashseed))
        IN  Zone(SectionGet(sectionize(text), "skills", ""))

\* The skills zone lists the ambiguous skills C and R: both are returned with
\* confidence 85.
C28_AmbiguousSkillAt85 ==
    /\ pc = "done"
    /\ text = "Skills\nC, R"
    /\ Len(ret) = 2
    /\ {ret[1].value, ret[2].value} = {"C", "R"}
    /\ ret[1].confidence = 85
    /\ ret[2].confidence = 85

(***************************************************************************)
(* extract_phone on a text with two phone numbers, one per line            *)
(***************************************************************************)
PairNumbers == {"9876543210", "98765 43210", "98765-43219", "7012345678",
                "60123 45678", "+91 9123456789", "+919123456780", "+91-8123456789"}

PhonePairTexts == {a \o NL \o b : a \in PairNumbers, b \in PairNumbers}

PhonePairInit ==
    /\ text \in PhonePairTexts
    /\ pc = "call"
    /\ ret = None
    /\ SecIdle
    /\ ReqIdle
    /\ EnvIdle

SpecPhonePair == PhonePairInit /\ [][PhoneCall]_vars

\* ---- C29 ----
\* C29: when the text contains several valid phone numbers, extract_phone
\* returns the one that occurs first in the text, whichever of its patterns
\* matches it: an earlier plain 10-digit number is preferred over a later
\* '+91'-prefixed one.
C29_FirstNumberInTextWins ==
    pc = "done" =>
        LET Stated(numbers) ==
                (\A k \in DOMAIN numbers : extract_phone(numbers[k]).confidence > 0)
                    => ret = extract_phone(numbers[1])
        IN  Stated(splitOn(text, NL))

\* A plain 10-digit number on the first line and a '+91' number on the second:
\* the second is returned.
C29_LaterPlus91NumberWins ==
    /\ pc = "done"
    /\ text = "9876543210\n+91 9123456789"
    /\ extract_phone("9876543210") = ExtractedField("+91-9876543210", 95)
    /\ ret = ExtractedField("+91-9123456789", 95)

(***************************************************************************)
(* parse_resume on resumes put together from parts                         *)
(***************************************************************************)
ContactParts == {"asha.rao@gmail.com\n+91 98765 43210", "asha@example.org"}
SkillParts == {"Skills\nPython, Java, Docker", "Skills\nC, R"}
ExperienceParts == {"Experience\nSoftware Engineer at Acme\nJan 2022 - Present",
                    "5 years of experience"}
EducationParts == {"Education\nB.Tech in CS\nIIT Delhi", "Education\nMBA"}

PipelineTexts ==
    {join(NL, <<"Asha Rao", c, s, e, d>>) :
        c \in ContactParts, s \in SkillParts, e \in ExperienceParts, d \in EducationParts}
    \cup {"Asha Rao"}

PipelineInit ==
    /\ text \in PipelineTexts
    /\ pc = "request"
    /\ ret = None
    /\ EnvIdle
    /\ ReqIdle
    /\ SecIdle

SpecPipeline == PipelineInit /\ [][ReqNext]_vars

\* ---- C30 ----
\* C30: the overall confidence of a record produced by the pipeline from a
\* text never exceeds 91: the extractors give at most email 100, phone 95,
\* name 85, experience 90, skills 90 and education 85, so the weighted sum is
\* at most 91.5, and it is truncated; 100 is not reached through parse_resume.
C30_OverallConfidenceAtMost91 ==
    (pc = "done" /\ ret.status = 200) =>
        LET Capped(w) ==
                /\ ret.email.confidence <= 100
                /\ ret.phone.confidence <= 95
                /\ ret.full_name.confidence <= 85
                /\ ret.years_of_experience.confidence <= 90
                /\ \A k \in 1..Len(ret.skills) : ret.skills[k].confidence <= 90
                /\ \A k \in 1..Len(ret.education) : ret.education[k].confidence <= 85
                /\ 10 * w.num <= 915 * w.den
                /\ ret.overall_confidence <= 91
                /\ ret.overall_confidence # 100
        IN  Capped(WeightedSumScaled(parsed))

\* A resume with a trusted email, a phone number, a name, a date range, three
\* skills in the skills zone and a degree paired with an institute: every
\* confidence is at its cap, the weighted sum is 91.5 and the result is 91.
C30_Witness ==
    /\ pc = "done"
    /\ text = "Asha Rao\nasha.rao@gmail.com\n+91 98765 43210\nSkills\nPython, Java, Docker\nExperience\nSoftware Engineer at Acme\nJan 2022 - Present\nEducation\nB.Tech in CS\nIIT Delhi"
    /\ ret.status = 200
    /\ 10 * WeightedSumScaled(parsed).num = 915 * WeightedSumScaled(parsed).den
    /\ ret.overall_confidence = 91

=============================================================================
